---- MODULE Spec2Model ----
(***************************************************************************)
(* CodeBot backend: the authentication / quota gate of the Telegram text   *)
(* handler (src/middleware/auth.js), the in-memory user store              *)
(* (src/services/database-demo.js), the credential cache                   *)
(* (src/utils/cache.js) and the message pipeline                           *)
(* (src/services/messageProcessor.js).                                     *)
(*                                                                         *)
(* Every inbound text message is one request r.  Inside authenticate a     *)
(* request advances from one awaited store operation to the next, so the   *)
(* gates of requests of the same or of different chats interleave where    *)
(* the event loop lets them.                                               *)
(***************************************************************************)
EXTENDS Integers, Sequences, FiniteSets, TLC

(* ------------------------------------------------------------------ *)
(* Bounds of the model                                                 *)
(* ------------------------------------------------------------------ *)
MaxRequests == 2      \* inbound text messages handled in one run
MaxIV == 1            \* distinct random IVs crypto.randomBytes may return

ReqIds == 1..MaxRequests
IVs == 1..MaxIV

(* ------------------------------------------------------------------ *)
(* JavaScript values                                                   *)
(* ------------------------------------------------------------------ *)
Null == "null"
Undefined == "undefined"

\* A Telegram chat id as the bot sees it: ctx.chat.id is a number.
Num(n) == [t |-> "number", v |-> n]
\* Chat 1 may have a stored user when the bot starts, chat 2 is unseen.
ChatIds == {Num(1), Num(2)}

\* JavaScript truthiness of a string-or-null/undefined value.
Truthy(x) == x # Null /\ x # Undefined /\ x # ""

\* Property access o.name: undefined when the object has no such property.
Field(o, name) == IF name \in DOMAIN o THEN o[name] ELSE Undefined

(* ------------------------------------------------------------------ *)
(* State                                                               *)
(* ------------------------------------------------------------------ *)
VARIABLES
    users,        \* the store's users Map, in insertion order
    usageLogs,    \* the store's usageLogs Map, in insertion order
    cache,        \* CacheService.cache restricted to the api_keys:<id> keys
    conversations,\* the store's conversations Map, in insertion order
    messages,     \* the store's messages Map, in insertion order
    req,          \* the handler of each inbound text message
    history,      \* per chat: message_count at start, authenticate calls that returned a
                  \* user, and whether the prompt of /revoke is the last thing sent
    now,          \* Date.now(), in milliseconds since the process started
    lookup,       \* the last call of the cache helpers and what it returned
    vault,        \* a blob handed to decryptApiKey and what it returned
    exec,         \* a run of executeOperations
    call,         \* a call of callGemini
    http,         \* the last exchange of POST /api/keys/activate
    notice,       \* the last quota notice of handleQuotaExceeded
    cleanup,      \* the cleanup module the server started
    outbox        \* the reply the text handler is sending to the chat

(* ------------------------------------------------------------------ *)
(* Process-wide configuration                                          *)
(* ------------------------------------------------------------------ *)
GEMINI_API_KEY == "default-gemini-key"
E2B_API_KEY == "default-e2b-key"
ENCRYPTION_KEY == "codebot32charencryptkey123456789"

(* ------------------------------------------------------------------ *)
(* CredentialVault: AES-256-GCM, blob "ivhex:taghex:cipherhex"         *)
(* A blob is the sequence of its ':'-separated segments; a segment is  *)
(* the sequence of its hex units (two hex characters, one byte) and of *)
(* characters that are no hex digits.  Bytes are symbolic: the IV      *)
(* randomBytes drew, the ciphertext and the tag of (key, iv, plaintext).*)
(* ------------------------------------------------------------------ *)
Byte(kind, k, iv, pt, i) == [kind |-> kind, key |-> k, iv |-> iv, pt |-> pt, i |-> i]
NoByte == Byte("none", "", 0, "", 0)

\* The tag of GCM is 16 bytes; setAuthTag accepts these lengths.
TagLength == 16
ValidTagLengths == {4, 8, 12, 13, 14, 15, 16}

\* A hex unit of a segment, as toString('hex') writes it (lower case).
HexUnit(b) == [byte |-> b, upper |-> FALSE, junk |-> FALSE]
\* A character that is no hex digit.
Junk == [byte |-> NoByte, upper |-> FALSE, junk |-> TRUE]

\* buffer.toString('hex')
HexEncode(bytes) == [i \in 1..Len(bytes) |-> HexUnit(bytes[i])]

\* Buffer.from(text, 'hex'): decoding is case-insensitive and stops at the
\* first character that is no hex digit.
HexDecode(seg) ==
    LET bad == {i \in 1..Len(seg) : seg[i].junk}
        n == IF bad = {} THEN Len(seg)
             ELSE (CHOOSE i \in bad : \A j \in bad : i <= j) - 1
    IN [i \in 1..n |-> seg[i].byte]

\* The 12 bytes of randomBytes(12), drawn together, are one unit.
IvBytes(iv) == <<Byte("iv", "", iv, "", 1)>>
\* GCM is a stream mode: an empty plaintext has an empty ciphertext.
CipherBytes(k, iv, pt) == IF pt = "" THEN << >> ELSE <<Byte("ct", k, iv, pt, 1)>>
TagBytes(k, iv, pt) == [i \in 1..TagLength |-> Byte("tag", k, iv, pt, i)]

\* A column that holds null.
NullBlob == << >>

\* Variant: the layout "iv:ciphertext:tag".
encryptApiKey_tagLast(apiKey, iv) ==
    <<HexEncode(IvBytes(iv)),
      HexEncode(CipherBytes(ENCRYPTION_KEY, iv, apiKey)),
      HexEncode(TagBytes(ENCRYPTION_KEY, iv, apiKey))>>

encryptApiKey(apiKey, iv) ==
    <<HexEncode(IvBytes(iv)),
      HexEncode(TagBytes(ENCRYPTION_KEY, iv, apiKey)),
      HexEncode(CipherBytes(ENCRYPTION_KEY, iv, apiKey))>>

\* Variant: the plaintext is taken from the ciphertext without checking the
\* tag.
decryptApiKey_noauth(encryptedKey) ==
    IF encryptedKey = NullBlob \/ encryptedKey = << << >> >> THEN Null
    ELSE IF Len(encryptedKey) < 3 THEN Null
    ELSE LET ct == HexDecode(encryptedKey[3])
         IN IF ct = << >> THEN "" ELSE ct[1].pt

\* decryptApiKey: null for a falsy blob.  Inside the try: Buffer.from and
\* decipher.update throw on a missing segment, createDecipheriv on an empty
\* IV, setAuthTag on a tag of invalid length, decipher.final() unless the tag
\* authenticates (key, iv, ciphertext); every throw is caught and gives null.
decryptApiKey(encryptedKey) ==
    IF encryptedKey = NullBlob \/ encryptedKey = << << >> >> THEN Null
    ELSE IF Len(encryptedKey) < 3 THEN Null
    ELSE LET iv == HexDecode(encryptedKey[1])
             tag == HexDecode(encryptedKey[2])
             ct == HexDecode(encryptedKey[3])
         IN IF iv = << >> \/ Len(tag) \notin ValidTagLengths \/ Len(ct) > 1 THEN Null
            ELSE LET pt == IF ct = << >> THEN "" ELSE ct[1].pt
                     sound == ct = CipherBytes(ENCRYPTION_KEY, iv[1].iv, pt)
                     expected == TagBytes(ENCRYPTION_KEY, iv[1].iv, pt)
                 IN IF /\ iv = IvBytes(iv[1].iv)
                       /\ sound
                       /\ tag = SubSeq(expected, 1, Len(tag))
                    THEN pt
                    ELSE Null

\* A byte other than the one that was written.
OtherByte(b) == [b EXCEPT !.kind = "other", !.pt = "garbled"]

\* A stored blob whose authentication tag was damaged.
CorruptBlob(pt, iv) ==
    [encryptApiKey(pt, iv) EXCEPT ![2][1] = HexUnit(OtherByte(@.byte))]

(* ------------------------------------------------------------------ *)
(* UserStore (database-demo.js): users is the Map in insertion order,  *)
(* the user with id "user_<i>" is users[i].                            *)
(* ------------------------------------------------------------------ *)
QuotaFREE == 100
QuotaBASIC == 500
QuotaPRO == 1000

TierQuota(tier) ==
    IF tier = "FREE" THEN QuotaFREE ELSE IF tier = "BASIC" THEN QuotaBASIC ELSE QuotaPRO

\* The day a Date falls on, counted from the day the process started; the
\* dates of the store are kept to the day.
DayOf(t) == t \div (24 * 60 * 60 * 1000)

\* quota_reset_date: new Date(Date.now() + 30 * 24 * 60 * 60 * 1000)
NewUserRecord(telegramChatId, tier) ==
    [telegram_chat_id |-> telegramChatId,
     tier |-> tier,
     message_quota |-> TierQuota(tier),
     quota_reset_date |-> DayOf(now) + 30,
     message_count |-> 0,
     is_active |-> "true",
     gemini_api_key_encrypted |-> NullBlob,
     e2b_api_key_encrypted |-> NullBlob]

\* userData.telegramChatId as createUser destructures it: undefined when
\* userData has no property of that name.
ChatIdOf(userData) ==
    IF "telegramChatId" \in DOMAIN userData THEN userData.telegramChatId
    ELSE [t |-> "undefined", v |-> 0]

\* Variant: the record is stored without an is_active flag.
createUser_unset(us, userData) ==
    LET tier == IF Field(userData, "tier") = Undefined THEN "FREE"
                ELSE userData.tier
    IN Append(us, [NewUserRecord(ChatIdOf(userData), tier)
                      EXCEPT !.is_active = "unset"])

\* createUser(userData): tier defaults to 'FREE' when userData has none.
createUser(us, userData) ==
    LET tier == IF Field(userData, "tier") = Undefined THEN "FREE"
                ELSE userData.tier
    IN Append(us, NewUserRecord(ChatIdOf(userData), tier))

\* findUserByTelegramId: the first user, in insertion order, whose
\* telegram_chat_id === telegramChatId; 0 stands for null.
findUserByTelegramId(us, telegramChatId) ==
    LET hits == {i \in 1..Len(us) : us[i].telegram_chat_id = telegramChatId}
    IN IF hits = {} THEN 0 ELSE CHOOSE i \in hits : \A j \in hits : i <= j

NoQuota == [hasQuota |-> FALSE, remaining |-> 0, total |-> 0, used |-> 0]

\* Variant: a user with nothing remaining still has quota.
checkUserQuota_inclusive(us, userId) ==
    IF userId \notin 1..Len(us) THEN NoQuota
    ELSE LET remaining == us[userId].message_quota - us[userId].message_count
         IN [hasQuota |-> remaining >= 0,
             remaining |-> IF remaining > 0 THEN remaining ELSE 0,
             total |-> us[userId].message_quota,
             used |-> us[userId].message_count]

checkUserQuota(us, userId) ==
    IF userId \notin 1..Len(us) THEN NoQuota
    ELSE LET remaining == us[userId].message_quota - us[userId].message_count
         IN [hasQuota |-> remaining > 0,
             remaining |-> IF remaining > 0 THEN remaining ELSE 0,
             total |-> us[userId].message_quota,
             used |-> us[userId].message_count]

\* Variant: the count is raised by two.
incrementMessageCount_twice(us, userId) ==
    IF userId \notin 1..Len(us) THEN us
    ELSE [us EXCEPT ![userId].message_count = @ + 2]

\* Variant: the count is raised only while it is below the quota.
incrementMessageCount_capped(us, userId) ==
    IF userId \notin 1..Len(us) THEN us
    ELSE [us EXCEPT ![userId].message_count =
              IF @ < us[userId].message_quota THEN @ + 1 ELSE @]

incrementMessageCount(us, userId) ==
    IF userId \notin 1..Len(us) THEN us
    ELSE [us EXCEPT ![userId].message_count = @ + 1]

\* updateUser(userId, {updated_at}): the activity touch of the gate writes
\* only timestamps, which are not part of the modelled record.
touchUser(us, userId) == us

\* getUserApiKeys(userId): note the property names geminiKey / e2bKey.
getUserApiKeys(us, userId) ==
    IF userId \notin 1..Len(us) THEN [geminiKey |-> Null, e2bKey |-> Null]
    ELSE [geminiKey |-> decryptApiKey(us[userId].gemini_api_key_encrypted),
          e2bKey |-> decryptApiKey(us[userId].e2b_api_key_encrypted)]

\* Variant: the loose test !user.is_active, which also blocks an unset flag.
IsDeactivated_loose(user) == user.is_active # "true"

\* Variant: the deactivation only blocks while quota remains.
IsDeactivated_quota(user) ==
    user.is_active = "false" /\ user.message_count < user.message_quota

\* The gate's activity test: only an explicit false blocks.
IsDeactivated(user) == user.is_active = "false"

\* The store's logUsage(data) destructures { user_id, action, success = true,
\* message = null } from its first argument; the entry is tagged with the
\* request that wrote it.
logUsage(logs, r, data) ==
    Append(logs, [req |-> r,
                  user_id |-> Field(data, "user_id"),
                  operation_type |-> Field(data, "action"),
                  success |-> IF Field(data, "success") = Undefined THEN "true"
                              ELSE data.success,
                  error_message |-> IF Field(data, "message") = Undefined THEN Null
                                    ELSE data.message])

\* The first argument of the positional calls logUsage(user.id, type, tokens,
\* success, error): a string, which has none of the destructured properties.
UserIdString(userId) == [string |-> userId]

getConversation(cs, threadId) ==
    LET hits == {i \in 1..Len(cs) : cs[i].thread_id = threadId}
    IN IF hits = {} THEN 0 ELSE CHOOSE i \in hits : \A j \in hits : i <= j

createConversation(cs, userId, threadId) ==
    Append(cs, [user_id |-> userId, thread_id |-> threadId])

\* getConversation, and createConversation when there is none.
EnsureConversation(cs, userId, threadId) ==
    IF getConversation(cs, threadId) = 0 THEN createConversation(cs, userId, threadId)
    ELSE cs

saveMessage(ms, conversationId, role, content) ==
    Append(ms, [conversation_id |-> conversationId, role |-> role, content |-> content])

(* ------------------------------------------------------------------ *)
(* Inbound text: its length, whether trim() leaves nothing, whether a  *)
(* deny-list pattern matches                                           *)
(* ------------------------------------------------------------------ *)
MaxMessageLength == 8000
Text(len, blank, danger) == [len |-> len, blank |-> blank, danger |-> danger]
\* A message of exactly the maximal length, one character more, the empty
\* message and a message of three blanks.
Texts ==
    {Text(MaxMessageLength, FALSE, FALSE), Text(MaxMessageLength + 1, FALSE, FALSE),
     Text(0, TRUE, FALSE), Text(3, TRUE, FALSE)}

\* Variant: a message of the maximal length is too long.
validateInput_inclusive(messageText) ==
    IF messageText.len >= MaxMessageLength THEN "too_long"
    ELSE IF messageText.blank THEN "empty"
    ELSE IF messageText.danger THEN "dangerous"
    ELSE "ok"

\* validateInput: the message of the error it throws, "ok" when it returns.
validateInput(messageText) ==
    IF messageText.len > MaxMessageLength THEN "too_long"
    ELSE IF messageText.blank THEN "empty"
    ELSE IF messageText.danger THEN "dangerous"
    ELSE "ok"

(* ------------------------------------------------------------------ *)
(* The operations of a completion response and their execution (e2b.js)*)
(* ------------------------------------------------------------------ *)
\* An element of the operations array: an object with a type and, for
\* write_file, a content that is present or not; or null.
Op(type, content) == [null |-> FALSE, type |-> type, content |-> content]
NullOp == [null |-> TRUE, type |-> "", content |-> FALSE]

\* The cases of the switch in executeOperations.
KnownTypes == {"terminal_command", "write_file", "read_file", "browser_action"}

\* The result pushed for an operation object: the simulated result of its
\* type; writeFile without content fails inside its own try (content.length)
\* and returns the failure; the default case reports the unknown type.
RunOperation(op) ==
    IF op.type \notin KnownTypes
    THEN [operation |-> op.type, success |-> FALSE, error |-> "Unknown operation type"]
    ELSE IF op.type = "write_file" /\ ~op.content
    THEN [operation |-> op.type, success |-> FALSE, error |-> "TypeError"]
    ELSE [operation |-> op.type, success |-> TRUE, error |-> ""]

\* formatOperationResults: per result its operation and, for a failed one,
\* "Operation failed" and the error.
formatOperationResults(results) ==
    [i \in 1..Len(results) |->
        [operation |-> results[i].operation,
         line |-> IF results[i].success THEN "succeeded" ELSE "Operation failed",
         error |-> IF results[i].success THEN "" ELSE results[i].error]]

\* Variant: every response with operations is followed up.
NeedsFollowUp_always(resp) == TRUE

\* processMessage 143: the follow-up call is made for status in_progress only.
NeedsFollowUp(resp) == resp.status = "in_progress"

(* ------------------------------------------------------------------ *)
(* CacheService (cache.js), api_keys entries: the Map from user id to  *)
(* {value, expiresAt}                                                  *)
(* ------------------------------------------------------------------ *)
\* setCachedKeys' default ttl: 30 minutes in milliseconds.
ApiKeysTTL == 30 * 60 * 1000

CacheMiss == [present |-> FALSE, value |-> [geminiKey |-> Null, e2bKey |-> Null]]

\* Variant: an entry is served whatever its expiresAt.
CacheGet_unexpiring(c, userId, t) ==
    IF userId \notin DOMAIN c THEN CacheMiss
    ELSE [present |-> TRUE, value |-> c[userId].value]

\* get, as getCachedKeys calls it at time t: a miss for a key that is not in
\* the Map or whose entry is past its expiresAt.
CacheGet(c, userId, t) ==
    IF userId \notin DOMAIN c THEN CacheMiss
    ELSE IF t > c[userId].expiresAt THEN CacheMiss
    ELSE [present |-> TRUE, value |-> c[userId].value]

\* The Map after get at time t: an expired entry is deleted.
CacheAfterGet(c, userId, t) ==
    IF userId \in DOMAIN c /\ t > c[userId].expiresAt
    THEN [i \in DOMAIN c \ {userId} |-> c[i]]
    ELSE c

\* set, as setCachedKeys calls it at time t with the default ttl.
CacheSet(c, userId, keys, t) ==
    [i \in DOMAIN c \cup {userId} |->
        IF i = userId THEN [value |-> keys, expiresAt |-> t + ApiKeysTTL] ELSE c[i]]

\* delete, as clearCachedKeys calls it.
CacheDelete(c, userId) == [i \in DOMAIN c \ {userId} |-> c[i]]

\* Variant: the stored keys replace the defaults without a truthiness test.
ResolveApiKeys_unguarded(cachedKeys) ==
    [gemini |-> Field(cachedKeys, "geminiKey"), e2b |-> Field(cachedKeys, "e2bKey")]

\* processMessage lines 45-68: the defaults, overridden by cachedKeys.gemini
\* and cachedKeys.e2b when those are truthy.
ResolveApiKeys(cachedKeys) ==
    [gemini |-> IF Truthy(Field(cachedKeys, "gemini")) THEN cachedKeys.gemini
                ELSE GEMINI_API_KEY,
     e2b |-> IF Truthy(Field(cachedKeys, "e2b")) THEN cachedKeys.e2b
             ELSE E2B_API_KEY]

vars == <<users, usageLogs, cache, conversations, messages, req, history,
          now, lookup, vault, exec, call, http, notice, cleanup, outbox>>

\* pc values of a request that is inside AuthenticationMiddleware.authenticate
GatePcs == {"find", "create", "quota", "touch", "incr"}

NoKeys == [geminiKey |-> Null, e2bKey |-> Null]
DefaultKeys == [gemini |-> GEMINI_API_KEY, e2b |-> E2B_API_KEY]
NoResponse == [ops |-> << >>, status |-> "none", tokens |-> FALSE]
NoEntry == [value |-> NoKeys, expiresAt |-> 0]

\* The users whose api_keys entries the cache helpers are called for.
CacheUsers == {1, 2}

\* No call of the cache helpers yet.  set and cleared record, per user, the
\* time of the last setCachedKeys and whether clearCachedKeys ran after it.
NoLookup ==
    [op |-> "none", user |-> 0, at |-> 0, hit |-> FALSE, value |-> NoKeys, ticks |-> 0,
     set |-> [u \in CacheUsers |-> -1], stored |-> [u \in CacheUsers |-> NoKeys]]

\* No blob handed to decryptApiKey yet.
NoVault ==
    [phase |-> "idle", origin |-> "none", pt |-> "", blob |-> NullBlob,
     change |-> "none", out |-> Null]

\* executeOperations is not running.
NoExec ==
    [pc |-> "idle", ops |-> << >>, next |-> 1,
     created |-> FALSE,     \* createSandbox returned
     sandboxId |-> 0,       \* 0 for null and undefined
     results |-> << >>,
     pending |-> "none",    \* the completion the finally block interrupts
     deletes |-> 0,         \* calls of deleteSandbox
     deleted |-> FALSE,     \* what the last deleteSandbox returned
     outcome |-> "none",    \* "returned" or "threw"
     returned |-> << >>]

\* callGemini is not running.
NoCall ==
    [pc |-> "idle",
     attempt |-> 0,         \* the loop variable
     posts |-> 0,           \* calls of axios.post
     failures |-> << >>,    \* what each failed attempt failed with
     delays |-> << >>,      \* the setTimeout delays awaited, in order
     result |-> "none",     \* the response text of the returned object
     error |-> "none"]      \* the message of the thrown error

\* No request reached POST /api/keys/activate.
NoHttp ==
    [status |-> 0,              \* the status of the response, 0 before any
     telegram_chat_id |-> [t |-> "undefined"],
     gemini_api_key |-> [t |-> "undefined"],
     e2b_api_key |-> [t |-> "undefined"],
     users |-> << >>,           \* the store's users when the request arrived
     usageLogs |-> << >>]       \* the store's usageLogs when it arrived

\* handleQuotaExceeded has sent no notice.
NoNotice ==
    [sent |-> FALSE,
     date |-> 0,                \* the day the notice announces as the reset
     user |-> [quota_reset_date |-> 0, message_count |-> 0]]  \* the stored user then

\* The cleanup module before the server calls start().
NoCleanup ==
    [isRunning |-> FALSE,
     jobs |-> {},               \* the jobs registered with cron.schedule
     timers |-> {}]             \* the jobs whose timer was started

\* The text handler has no reply to send.
NoOutbox ==
    [pc |-> "idle",
     response |-> << >>,        \* what processMessage returned
     chunks |-> << >>,          \* the chunks still to send
     sent |-> << >>]            \* the messages sent with ctx.reply, in order

\* "No stored user" for the chat.
NoUser == [exists |-> FALSE, is_active |-> "unset", message_count |-> 0,
           message_quota |-> 0]

\* What the store holds for the chat: the fields of the user the lookup finds.
StoredUser(us, chat) ==
    LET u == findUserByTelegramId(us, chat)
    IN IF u = 0 THEN NoUser
       ELSE [exists |-> TRUE, is_active |-> us[u].is_active,
             message_count |-> us[u].message_count,
             message_quota |-> us[u].message_quota]

IdleRequest ==
    [pc |-> "idle", chat |-> Num(0), uid |-> 0,
     quota |-> NoQuota,
     result |-> 0,            \* what authenticate returned: a user id, 0 for null
     outcome |-> "none",      \* NEW_USER, INACTIVE, QUOTA_EXCEEDED, PROCEED,
                              \* AUTH_ERROR, NEW_USER_ERROR
     error |-> "",            \* the store operation that threw inside authenticate
     replies |-> << >>,       \* what was sent to the chat, in order
     created |-> 0,           \* users created by this call
     incs |-> 0,              \* by how much this call raised message_count
     pre |-> NoUser,          \* the stored user of the chat when authenticate was called
     after |-> 0,             \* stored message_count when authenticate returned
     alone |-> TRUE,          \* no other call for the same chat overlapped this one
     text |-> Text(0, TRUE, FALSE), \* ctx.message.text
     conv |-> 0,              \* conversation id held by processMessage, 0 for null
     dbKeys |-> NoKeys,       \* what getUserApiKeys returned on a cache miss
     apiKeys |-> DefaultKeys, \* the apiKeys object of processMessage
     ai |-> NoResponse,       \* geminiResponse of the first completion call
     pmCalls |-> 0,           \* processMessage invocations
     aiKeys |-> << >>,        \* the apiKey of each processConversation call
     execKeys |-> << >>,      \* the apiKey of each executeOperations call
     executed |-> << >>,      \* the operations of each executeOperations call
     results |-> << >>,       \* operationResults
     ai2 |-> NoResponse,      \* finalResponse of the follow-up completion call
     fed |-> << >>,           \* the results text given to the follow-up call
     saved |-> << >>,         \* the roles of the messages this handler saved
     stale |-> FALSE,         \* the cached keys read differ from the stored ones
     response |-> "",         \* what processMessage returned
     command |-> "none",      \* the bot command of the update, "none" for a text
     session |-> FALSE,       \* ctx.session.awaitingRevokeConfirmation
     confirming |-> FALSE,    \* the update follows an answered /revoke of its chat
     logged |-> << >>,        \* the excerpts of credentials written to the log
     history |-> << >>,       \* the history given to the first processConversation call
     stored |-> << >>]        \* the messages the store held for the conversation then

\* message_count stored for the chat (0 when the chat has no user).
StoredCount(us, chat) ==
    LET u == findUserByTelegramId(us, chat)
    IN IF u = 0 THEN 0 ELSE us[u].message_count

\* Users the store may hold when the bot starts: none, or one user of chat 1
\* that earlier runs left behind; its credentials, when it has any, were
\* encrypted under one of the IVs.
InitCounts == {0, QuotaFREE - 1, QuotaFREE}
InitUsers ==
    { NewUserRecord(Num(1), "FREE") }
    \cup { [NewUserRecord(Num(1), "FREE") EXCEPT !.is_active = a, !.message_count = n] :
             a \in {"true", "false", "unset"}, n \in InitCounts }
    \cup { [NewUserRecord(Num(1), "FREE") EXCEPT
              !.gemini_api_key_encrypted = encryptApiKey("user-gemini-key", iv),
              !.e2b_api_key_encrypted = encryptApiKey("user-e2b-key", iv)] : iv \in IVs }
    \cup { [NewUserRecord(Num(1), "FREE") EXCEPT
              !.gemini_api_key_encrypted = CorruptBlob("user-gemini-key", iv),
              !.e2b_api_key_encrypted = CorruptBlob("user-e2b-key", iv)] : iv \in IVs }

Init ==
    /\ now = 0
    /\ users \in {<< >>} \cup {<<u>> : u \in InitUsers}
    /\ usageLogs = << >>
    /\ cache = [i \in {} |-> NoEntry]
    /\ conversations = << >>
    /\ messages = << >>
    /\ req = [r \in ReqIds |-> IdleRequest]
    /\ history = [c \in ChatIds |-> [start |-> StoredCount(users, c), proceeds |-> 0, prompted |-> FALSE]]
    /\ lookup = NoLookup
    /\ vault = NoVault
    /\ exec = NoExec
    /\ call = NoCall
    /\ outbox = NoOutbox
    /\ cleanup = NoCleanup
    /\ notice = NoNotice
    /\ http = NoHttp

(* ------------------------------------------------------------------ *)
(* Scheduling of the handlers                                          *)
(* ------------------------------------------------------------------ *)
\* Handlers interleave at every await of authenticate.  Past the gate a
\* handler writes nothing the gate reads (it reads credentials, appends
\* conversations, messages and usage logs, and replies), so the steps of the
\* authenticated handler are not interleaved with the steps of other
\* handlers.  A finished handler is observed in its final state "done" and
\* then forgotten, before any other handler moves.
TailPcs == {"h_conv", "pm_start", "pm_db", "pm_cset", "pm_ai1", "pm_exec", "pm_ai2",
            "reply", "done"}
Ready(r) == \A q \in ReqIds \ {r} : req[q].pc \notin TailPcs

\* The handler has returned; its context is dropped.
Forget(r) ==
    /\ req[r].pc = "done"
    /\ req' = [req EXCEPT ![r] = [IdleRequest EXCEPT !.pc = "retired"]]
    /\ UNCHANGED <<outbox, cleanup, notice, http, call, now, lookup, vault, exec, users, usageLogs, cache, conversations, messages, history>>

(* ------------------------------------------------------------------ *)
(* AuthenticationMiddleware (auth.js)                                  *)
(* ------------------------------------------------------------------ *)

\* Variant: the blocked paths return the user they looked at.
BlockedResult_user(uid) == uid

\* `return null` of the blocked paths of authenticate.
BlockedResult(uid) == 0

\* middleware(ctx, next): next() runs the authenticated text handler only
\* when authenticate returned a user.
AfterAuthenticate(result) == IF result # 0 THEN "h_conv" ELSE "done"

\* authenticate returns: the reply (if any) has been sent, the middleware
\* continues.
Return(r, us, result, outcome, reply) ==
    [req[r] EXCEPT
        !.pc = IF req[r].command = "none" THEN AfterAuthenticate(result)
              ELSE IF result # 0 THEN "command" ELSE "done",
        !.result = result,
        !.outcome = outcome,
        !.replies = IF reply = "" THEN @ ELSE Append(@, reply),
        !.after = StoredCount(us, req[r].chat)]

\* bot.on('text'): a text message of chat c arrives; requests are numbered
\* in arrival order.
Receive(r, c) ==
    /\ Ready(r)
    /\ req[r].pc = "idle"
    /\ \A q \in ReqIds : q < r => req[q].pc # "idle"
    /\ LET overlap == {q \in ReqIds : req[q].pc \in GatePcs /\ req[q].chat = c}
       IN req' = [q \in ReqIds |->
                    IF q = r
                    THEN [req[r] EXCEPT !.pc = "find", !.chat = c,
                              !.pre = StoredUser(users, c),
                              !.alone = (overlap = {})]
                    ELSE IF q \in overlap THEN [req[q] EXCEPT !.alone = FALSE]
                    ELSE req[q]]
    /\ UNCHANGED <<outbox, cleanup, notice, http, call, now, lookup, vault, exec, users, usageLogs, cache, conversations, messages, history>>

\* Step 1 and 2: findUserByTelegramId, then the is_active test.
AuthFind(r) ==
    /\ Ready(r)
    /\ req[r].pc = "find"
    /\ LET uid == findUserByTelegramId(users, req[r].chat)
       IN req' = [req EXCEPT ![r] =
                    IF uid = 0 THEN [req[r] EXCEPT !.pc = "create"]
                    ELSE IF IsDeactivated(users[uid])
                    THEN Return(r, users, BlockedResult(uid), "INACTIVE", "deactivated")
                    ELSE [req[r] EXCEPT !.pc = "quota", !.uid = uid]]
    /\ UNCHANGED <<outbox, cleanup, notice, http, call, now, lookup, vault, exec, users, usageLogs, cache, conversations, messages, history>>

\* handleNewUser: createUser, the welcome, and authenticate returns null.
AuthCreate(r) ==
    /\ Ready(r)
    /\ req[r].pc = "create"
    /\ users' = createUser(users, [telegramChatId |-> req[r].chat, tier |-> "FREE"])
    /\ req' = [req EXCEPT ![r] =
                 [Return(r, users', BlockedResult(Len(users')), "NEW_USER", "welcome")
                    EXCEPT !.created = @ + 1]]
    /\ UNCHANGED <<outbox, cleanup, notice, http, call, now, lookup, vault, exec, usageLogs, cache, conversations, messages, history>>

\* Step 3: checkUserQuota; without quota the upgrade notice is sent.
AuthQuota(r) ==
    /\ Ready(r)
    /\ req[r].pc = "quota"
    /\ LET quota == checkUserQuota(users, req[r].uid)
       IN req' = [req EXCEPT ![r] =
                    IF ~quota.hasQuota
                    THEN [Return(r, users, BlockedResult(req[r].uid), "QUOTA_EXCEEDED",
                                 "quota_exceeded") EXCEPT !.quota = quota]
                    ELSE [req[r] EXCEPT !.pc = "touch", !.quota = quota]]
    /\ UNCHANGED <<outbox, cleanup, notice, http, call, now, lookup, vault, exec, users, usageLogs, cache, conversations, messages, history>>

\* Step 4: updateUser(user.id, {updated_at}).
AuthTouch(r) ==
    /\ Ready(r)
    /\ req[r].pc = "touch"
    /\ users' = touchUser(users, req[r].uid)
    /\ req' = [req EXCEPT ![r].pc = "incr"]
    /\ UNCHANGED <<outbox, cleanup, notice, http, call, now, lookup, vault, exec, usageLogs, cache, conversations, messages, history>>

\* incrementMessageCount, and authenticate returns the user.
AuthIncr(r) ==
    /\ Ready(r)
    /\ req[r].pc = "incr"
    /\ users' = incrementMessageCount(users, req[r].uid)
    /\ req' = [req EXCEPT ![r] =
                 [Return(r, users', req[r].uid, "PROCEED", "")
                    EXCEPT !.incs = @ + (users'[req[r].uid].message_count
                                          - users[req[r].uid].message_count)]]
    /\ history' = [history EXCEPT ![req[r].chat].proceeds = @ + 1]
    /\ UNCHANGED <<outbox, cleanup, notice, http, call, now, lookup, vault, exec, usageLogs, cache, conversations, messages>>

(* ------------------------------------------------------------------ *)
(* Store operations that throw inside the gate (a store backed by a    *)
(* database connection rejects the awaited promise)                    *)
(* ------------------------------------------------------------------ *)

\* The catch block of authenticate (lines 135-141): logger.error, the
\* authentication-error notice, return null.  Nothing is written to the
\* usage log.
CatchAuthenticate(r, operation) ==
    /\ req' = [req EXCEPT ![r] =
                 [Return(r, users, BlockedResult(req[r].uid), "AUTH_ERROR", "auth_error")
                    EXCEPT !.error = operation]]
    /\ UNCHANGED <<outbox, cleanup, notice, http, call, now, lookup, vault, exec, users, usageLogs, cache, conversations, messages, history>>

AuthFindThrows(r) ==
    /\ Ready(r)
    /\ req[r].pc = "find"
    /\ CatchAuthenticate(r, "findUserByTelegramId")

AuthQuotaThrows(r) ==
    /\ Ready(r)
    /\ req[r].pc = "quota"
    /\ CatchAuthenticate(r, "checkUserQuota")

AuthTouchThrows(r) ==
    /\ Ready(r)
    /\ req[r].pc = "touch"
    /\ CatchAuthenticate(r, "updateUser")

AuthIncrThrows(r) ==
    /\ Ready(r)
    /\ req[r].pc = "incr"
    /\ CatchAuthenticate(r, "incrementMessageCount")

\* createUser throws: the catch block of handleNewUser (lines 189-192) sends
\* the account-creation notice, and authenticate returns null at line 99.
AuthCreateThrows(r) ==
    /\ Ready(r)
    /\ req[r].pc = "create"
    /\ req' = [req EXCEPT ![r] =
                 [Return(r, users, BlockedResult(req[r].uid), "NEW_USER_ERROR",
                         "create_error") EXCEPT !.error = "createUser"]]
    /\ UNCHANGED <<outbox, cleanup, notice, http, call, now, lookup, vault, exec, users, usageLogs, cache, conversations, messages, history>>

(* ------------------------------------------------------------------ *)
(* The authenticated text handler (telegram.js) and processMessage     *)
(* (messageProcessor.js)                                               *)
(* ------------------------------------------------------------------ *)
Thread(chat) == [telegram |-> chat]

\* What processConversation may return: no operations (status complete), or
\* operations with status in_progress or complete; with or without a token
\* count.
AiResponses ==
    {[ops |-> << >>, status |-> "complete", tokens |-> TRUE],
     [ops |-> << >>, status |-> "complete", tokens |-> FALSE],
     [ops |-> <<Op("read_file", FALSE), Op("deploy", FALSE)>>,
      status |-> "in_progress", tokens |-> TRUE],
     [ops |-> <<Op("read_file", FALSE), Op("deploy", FALSE)>>,
      status |-> "complete", tokens |-> TRUE]}

\* The text of the response object processConversation returns on its n-th
\* call of a turn: callGemini throws on an empty text, so the text is never
\* empty; the two calls of a turn answer different prompts.
CompletionText(n) == IF n = 1 THEN "answer" ELSE "summary"

\* Variant: the first response is kept when there is a follow-up response.
ReturnedText_first(finalText, firstText) == firstText

\* finalResponse.response || geminiResponse.response
ReturnedText(finalText, firstText) ==
    IF Truthy(finalText) THEN finalText ELSE firstText

\* The messages of the exceptions the collaborators of processMessage throw:
\* processConversation rethrows what callGemini threw, executeOperations
\* rethrows what createSandbox or an operation threw.
CollaboratorMessages == {"provider", "executor"}

\* The catch block of processMessage, line 233: the returned text is built
\* around error.message.
ErrorReply(message) == "error: " \o message

\* telegram.js 278-301: the handler runs only with ctx.state.user set; it
\* reads ctx.message.text (nothing before this point looks at the text, so
\* the text of the message is drawn here), looks up or creates the
\* conversation, logs the message and calls processMessage.
HandlerConversation(r) ==
    /\ Ready(r)
    /\ req[r].pc = "h_conv"
    /\ req[r].result # 0
    /\ conversations' = EnsureConversation(conversations, req[r].uid, Thread(req[r].chat))
    /\ usageLogs' = logUsage(usageLogs, r, UserIdString(req[r].uid))
    /\ \E txt \in Texts :
         req' = [req EXCEPT ![r].pc = "pm_start", ![r].text = txt, ![r].pmCalls = @ + 1]
    /\ UNCHANGED <<outbox, cleanup, notice, http, call, now, lookup, vault, exec, users, cache, messages, history>>

\* processMessage 19-53: the conversation, validateInput, the cache lookup.
PmStart(r) ==
    /\ Ready(r)
    /\ req[r].pc = "pm_start"
    /\ conversations' = EnsureConversation(conversations, req[r].uid, Thread(req[r].chat))
    /\ LET conv == getConversation(conversations', Thread(req[r].chat))
           cached == CacheGet(cache, req[r].uid, now)
       IN IF validateInput(req[r].text) # "ok"
          THEN /\ usageLogs' = logUsage(usageLogs, r, UserIdString(req[r].uid))
               /\ req' = [req EXCEPT ![r].pc = "reply", ![r].conv = conv,
                              ![r].response = validateInput(req[r].text)]
          ELSE /\ usageLogs' = usageLogs
               /\ req' = [req EXCEPT ![r] =
                            IF cached.present
                            THEN [req[r] EXCEPT !.pc = "pm_ai1", !.conv = conv,
                                      !.stale = cached.value # getUserApiKeys(users, req[r].uid),
                                      !.apiKeys = ResolveApiKeys(cached.value)]
                            ELSE [req[r] EXCEPT !.pc = "pm_db", !.conv = conv]]
    /\ cache' = IF validateInput(req[r].text) # "ok"
                THEN cache
                ELSE CacheAfterGet(cache, req[r].uid, now)
    /\ UNCHANGED <<outbox, cleanup, notice, http, call, now, lookup, vault, exec, users, messages, history>>

\* processMessage 57: databaseService.getUserApiKeys on a cache miss.
PmDbKeys(r) ==
    /\ Ready(r)
    /\ req[r].pc = "pm_db"
    /\ req' = [req EXCEPT ![r].pc = "pm_cset",
                          ![r].dbKeys = getUserApiKeys(users, req[r].uid)]
    /\ UNCHANGED <<outbox, cleanup, notice, http, call, now, lookup, vault, exec, users, usageLogs, cache, conversations, messages, history>>

\* processMessage 58-68: cache the keys and merge them into apiKeys.
PmCacheSet(r) ==
    /\ Ready(r)
    /\ req[r].pc = "pm_cset"
    /\ cache' = CacheSet(cache, req[r].uid, req[r].dbKeys, now)
    /\ req' = [req EXCEPT ![r].pc = "pm_ai1",
                          ![r].apiKeys = ResolveApiKeys(req[r].dbKeys)]
    /\ UNCHANGED <<outbox, cleanup, notice, http, call, now, lookup, vault, exec, users, usageLogs, conversations, messages, history>>

\* getRecentMessages(conversationId): the messages of the conversation in
\* the order of their creation, the last 20 of them.
getRecentMessages(ms, conversationId) ==
    LET own == SelectSeq(ms, LAMBDA m : m.conversation_id = conversationId)
    IN IF Len(own) <= 20 THEN own ELSE SubSeq(own, Len(own) - 19, Len(own))

\* processMessage 21 and 76-89: currentConversationHistory is a copy of the
\* conversationHistory argument, given the system prompt when it is empty,
\* with the message of the user appended.
currentConversationHistory(conversationHistory, messageText) ==
    Append(IF Len(conversationHistory) = 0
           THEN <<[role |-> "system", content |-> "systemPrompt"]>>
           ELSE conversationHistory,
           [role |-> "user", content |-> messageText])

\* The conversationHistory argument of processMessage(chatId, userMessage,
\* user) as the text handler calls it: the default value.
HandlerHistory == << >>

\* apiKey.substring(0, n) inside a log line.
Excerpt(apiKey, n) == [chars |-> n, of |-> apiKey]

\* processMessage 90-121 and 196-209: the first completion call, the usage
\* log, the USER message; with operations, the log line about the E2B key;
\* without operations the reply is saved and returned.
PmConverse1(r) ==
    /\ Ready(r)
    /\ req[r].pc = "pm_ai1"
    /\ \E resp \in AiResponses :
         LET logs1 == IF resp.tokens
                      THEN logUsage(usageLogs, r, UserIdString(req[r].uid))
                      ELSE usageLogs
             ms1 == IF req[r].conv # 0
                    THEN saveMessage(messages, req[r].conv, "USER", "text")
                    ELSE messages
             sv1 == IF req[r].conv # 0 THEN <<"USER">> ELSE << >>
         IN /\ usageLogs' = logs1
            /\ IF Len(resp.ops) > 0
               THEN /\ messages' = ms1
                    /\ req' = [req EXCEPT ![r].pc = "pm_exec", ![r].ai = resp,
                                   ![r].aiKeys = Append(@, req[r].apiKeys.gemini),
                                   ![r].history = currentConversationHistory(HandlerHistory, "text"),
                                   ![r].stored = getRecentMessages(messages, req[r].conv),
                                   ![r].logged = Append(@, Excerpt(req[r].apiKeys.e2b, 10)),
                                   ![r].saved = @ \o sv1]
               ELSE /\ messages' = IF req[r].conv # 0
                                   THEN saveMessage(ms1, req[r].conv, "ASSISTANT", CompletionText(1))
                                   ELSE ms1
                    /\ req' = [req EXCEPT ![r].pc = "reply", ![r].ai = resp,
                                   ![r].aiKeys = Append(@, req[r].apiKeys.gemini),
                                   ![r].history = currentConversationHistory(HandlerHistory, "text"),
                                   ![r].stored = getRecentMessages(messages, req[r].conv),
                                   ![r].saved = IF req[r].conv # 0
                                                THEN @ \o <<"USER", "ASSISTANT">> ELSE @,
                                   ![r].response = CompletionText(1)]
    /\ UNCHANGED <<outbox, cleanup, notice, http, call, now, lookup, vault, exec, users, cache, conversations, history>>

\* processConversation throws (the provider failed after its retries).
PmConverse1Throws(r) ==
    /\ Ready(r)
    /\ req[r].pc = "pm_ai1"
    /\ usageLogs' = logUsage(usageLogs, r, UserIdString(req[r].uid))
    /\ req' = [req EXCEPT ![r].pc = "reply",
                          ![r].aiKeys = Append(@, req[r].apiKeys.gemini),
                          ![r].response = ErrorReply("provider")]
    /\ UNCHANGED <<outbox, cleanup, notice, http, call, now, lookup, vault, exec, users, cache, conversations, messages, history>>

\* processMessage 117-141 and 180-193: executeOperations, its usage log; with
\* status complete the first response is saved and returned.
PmExecute(r) ==
    /\ Ready(r)
    /\ req[r].pc = "pm_exec"
    /\ usageLogs' = logUsage(usageLogs, r, UserIdString(req[r].uid))
    /\ \A i \in 1..Len(req[r].ai.ops) : ~req[r].ai.ops[i].null
    /\ LET operationResults == [i \in 1..Len(req[r].ai.ops) |-> RunOperation(req[r].ai.ops[i])]
       IN IF NeedsFollowUp(req[r].ai)
          THEN /\ messages' = messages
               /\ req' = [req EXCEPT ![r].pc = "pm_ai2",
                                     ![r].execKeys = Append(@, req[r].apiKeys.e2b),
                                     ![r].executed = Append(@, req[r].ai.ops),
                                     ![r].results = operationResults]
          ELSE /\ messages' = IF req[r].conv # 0
                              THEN saveMessage(messages, req[r].conv, "ASSISTANT", CompletionText(1))
                              ELSE messages
               /\ req' = [req EXCEPT ![r].pc = "reply",
                                     ![r].execKeys = Append(@, req[r].apiKeys.e2b),
                                     ![r].executed = Append(@, req[r].ai.ops),
                                     ![r].results = operationResults,
                                     ![r].saved = IF req[r].conv # 0
                                                  THEN Append(@, "ASSISTANT") ELSE @,
                                     ![r].response = CompletionText(1)]
    /\ UNCHANGED <<outbox, cleanup, notice, http, call, now, lookup, vault, exec, users, cache, conversations, history>>

\* executeOperations throws (the E2B sandbox could not be created).
PmExecuteThrows(r) ==
    /\ Ready(r)
    /\ req[r].pc = "pm_exec"
    /\ usageLogs' = logUsage(usageLogs, r, UserIdString(req[r].uid))
    /\ req' = [req EXCEPT ![r].pc = "reply",
                          ![r].execKeys = Append(@, req[r].apiKeys.e2b),
                          ![r].executed = Append(@, req[r].ai.ops),
                          ![r].response = ErrorReply("executor")]
    /\ UNCHANGED <<outbox, cleanup, notice, http, call, now, lookup, vault, exec, users, cache, conversations, messages, history>>

\* processMessage 143-178: the follow-up completion call, given the formatted
\* results, and its summary; whatever the follow-up response holds, its text
\* is saved and returned.
PmConverse2(r) ==
    /\ Ready(r)
    /\ req[r].pc = "pm_ai2"
    /\ messages' = IF req[r].conv # 0
                   THEN saveMessage(messages, req[r].conv, "ASSISTANT",
                                    ReturnedText(CompletionText(2), CompletionText(1)))
                   ELSE messages
    /\ \E finalResponse \in AiResponses :
         req' = [req EXCEPT ![r].pc = "reply",
                            ![r].aiKeys = Append(@, req[r].apiKeys.gemini),
                            ![r].ai2 = finalResponse,
                            ![r].fed = formatOperationResults(req[r].results),
                            ![r].saved = IF req[r].conv # 0
                                         THEN Append(@, "ASSISTANT") ELSE @,
                            ![r].response = ReturnedText(CompletionText(2),
                                                         CompletionText(1))]
    /\ UNCHANGED <<outbox, cleanup, notice, http, call, now, lookup, vault, exec, users, usageLogs, cache, conversations, history>>

PmConverse2Throws(r) ==
    /\ Ready(r)
    /\ req[r].pc = "pm_ai2"
    /\ usageLogs' = logUsage(usageLogs, r, UserIdString(req[r].uid))
    /\ req' = [req EXCEPT ![r].pc = "reply",
                          ![r].aiKeys = Append(@, req[r].apiKeys.gemini),
                          ![r].fed = formatOperationResults(req[r].results),
                          ![r].response = ErrorReply("provider")]
    /\ UNCHANGED <<outbox, cleanup, notice, http, call, now, lookup, vault, exec, users, cache, conversations, messages, history>>

\* telegram.js 303-325: the response is sent to the chat.
SendReply(r) ==
    /\ Ready(r)
    /\ req[r].pc = "reply"
    /\ req' = [req EXCEPT ![r].pc = "done", ![r].replies = Append(@, req[r].response)]
    /\ UNCHANGED <<outbox, cleanup, notice, http, call, now, lookup, vault, exec, users, usageLogs, cache, conversations, messages, history>>

(* ------------------------------------------------------------------ *)
(* Specification: the store of database-demo.js, whose operations do   *)
(* not throw                                                           *)
(* ------------------------------------------------------------------ *)
Next ==
    \E r \in ReqIds :
           \/ \E c \in ChatIds : Receive(r, c)
           \/ AuthFind(r)
           \/ AuthCreate(r)
           \/ AuthQuota(r)
           \/ AuthTouch(r)
           \/ AuthIncr(r)
           \/ HandlerConversation(r)
           \/ PmStart(r)
           \/ PmDbKeys(r)
           \/ PmCacheSet(r)
           \/ PmConverse1(r)
           \/ PmConverse1Throws(r)
           \/ PmExecute(r)
           \/ PmExecuteThrows(r)
           \/ PmConverse2(r)
           \/ PmConverse2Throws(r)
           \/ SendReply(r)
           \/ Forget(r)

Spec == Init /\ [][Next]_vars

(* ------------------------------------------------------------------ *)
(* Specification with a store whose operations may throw in the gate   *)
(* ------------------------------------------------------------------ *)
NextFault ==
    \E r \in ReqIds :
           \/ \E c \in ChatIds : Receive(r, c)
           \/ AuthFind(r)
           \/ AuthFindThrows(r)
           \/ AuthCreate(r)
           \/ AuthCreateThrows(r)
           \/ AuthQuota(r)
           \/ AuthQuotaThrows(r)
           \/ AuthTouch(r)
           \/ AuthTouchThrows(r)
           \/ AuthIncr(r)
           \/ AuthIncrThrows(r)
           \/ HandlerConversation(r)
           \/ PmStart(r)
           \/ PmDbKeys(r)
           \/ PmCacheSet(r)
           \/ PmConverse1(r)
           \/ PmConverse1Throws(r)
           \/ PmExecute(r)
           \/ PmExecuteThrows(r)
           \/ PmConverse2(r)
           \/ PmConverse2Throws(r)
           \/ SendReply(r)
           \/ Forget(r)

SpecFault == Init /\ [][NextFault]_vars

(* ------------------------------------------------------------------ *)
(* Specification with a store whose operations may also throw in the   *)
(* authenticated text handler                                          *)
(* ------------------------------------------------------------------ *)

\* telegram.js 288-298 and 327-330: getConversation, createConversation or
\* logUsage rejects; the three calls share the try block of the handler with
\* the processMessage call, so the catch block answers and the handler ends.
\* A rejected call has written nothing.
HandlerStoreThrows(r) ==
    /\ Ready(r)
    /\ req[r].pc = "h_conv"
    /\ req[r].result # 0
    /\ \E txt \in Texts :
         req' = [req EXCEPT ![r].pc = "done", ![r].text = txt,
                            ![r].replies = Append(@, "handler_error")]
    /\ UNCHANGED <<outbox, cleanup, notice, http, call, now, lookup, vault, exec, users, usageLogs, cache, conversations, messages, history>>

NextStoreFault ==
    \/ NextFault
    \/ \E r \in ReqIds : HandlerStoreThrows(r)

SpecStoreFault == Init /\ [][NextStoreFault]_vars

(* ------------------------------------------------------------------ *)
(* Properties of the authentication gate                               *)
(* ------------------------------------------------------------------ *)

\* C1: for an existing user whose is_active is true or unset and whose
\* message_quota - message_count > 0 when authenticate is called, the call
\* returns the user (PROCEED), raises message_count exactly once, and (no
\* other call for the chat overlapping it) leaves the stored message_count
\* exactly one greater than it was before the call.
C1_ProceedIncrementsByOne ==
    \A r \in ReqIds :
        (/\ req[r].outcome # "none"
         /\ req[r].alone
         /\ req[r].pre.exists
         /\ req[r].pre.is_active \in {"true", "unset"}
         /\ req[r].pre.message_quota - req[r].pre.message_count > 0)
        => /\ req[r].outcome = "PROCEED"
           /\ req[r].result # 0
           /\ req[r].result = findUserByTelegramId(users, req[r].chat)
           /\ req[r].incs = 1
           /\ req[r].after = req[r].pre.message_count + 1

\* A user with an unset is_active at 99 of 100 was let through and is at 100.
C1_Witness ==
    \E r \in ReqIds :
        /\ req[r].outcome = "PROCEED"
        /\ req[r].alone
        /\ req[r].pre.is_active = "unset"
        /\ req[r].pre.message_count = QuotaFREE - 1
        /\ req[r].after = QuotaFREE

\* C2: for an existing user whose is_active is exactly false, authenticate
\* sends the deactivation notice and returns null, whatever the quota state,
\* and the stored message_count is unchanged by the call.
C2_InactiveBlocked ==
    \A r \in ReqIds :
        (/\ req[r].outcome # "none"
         /\ req[r].pre.exists
         /\ req[r].pre.is_active = "false")
        => /\ req[r].outcome = "INACTIVE"
           /\ req[r].result = 0
           /\ req[r].replies = <<"deactivated">>
           /\ req[r].incs = 0
           /\ req[r].after = req[r].pre.message_count

\* A deactivated user whose quota is also used up got the deactivation notice.
C2_Witness ==
    \E r \in ReqIds :
        /\ req[r].outcome = "INACTIVE"
        /\ req[r].pre.is_active = "false"
        /\ req[r].pre.message_count = req[r].pre.message_quota
        /\ req[r].replies = <<"deactivated">>
        /\ req[r].after = req[r].pre.message_count

\* C3: for an existing active user with message_count >= message_quota,
\* authenticate sends the quota-exceeded notice and returns null, and the
\* call does not raise message_count: the stored count is what it was before
\* the call (no other call for the chat overlapping it).
C3_QuotaExceededBlocked ==
    \A r \in ReqIds :
        (/\ req[r].outcome # "none"
         /\ req[r].pre.exists
         /\ req[r].pre.is_active # "false"
         /\ req[r].pre.message_count >= req[r].pre.message_quota)
        => /\ req[r].outcome = "QUOTA_EXCEEDED"
           /\ req[r].result = 0
           /\ req[r].replies = <<"quota_exceeded">>
           /\ req[r].incs = 0
           /\ req[r].alone => req[r].after = req[r].pre.message_count

\* A user at 100 of 100 got the quota notice and stays at 100.
C3_Witness ==
    \E r \in ReqIds :
        /\ req[r].outcome = "QUOTA_EXCEEDED"
        /\ req[r].alone
        /\ req[r].pre.message_count = QuotaFREE
        /\ req[r].pre.message_quota = QuotaFREE
        /\ req[r].replies = <<"quota_exceeded">>
        /\ StoredCount(users, req[r].chat) = QuotaFREE

\* C4: when authenticate is called for a chat id without a stored user (and
\* no other call for the chat overlaps it), it creates a user that the lookup
\* by the same chat id returns right after the call with tier FREE,
\* message_quota 100, message_count 0 and is_active true; the welcome is
\* sent, authenticate returns null, and the message is neither processed nor
\* counted.
C4_NewUserCreated ==
    \A r \in ReqIds :
        (/\ req[r].outcome # "none"
         /\ req[r].alone
         /\ ~req[r].pre.exists)
        => /\ req[r].outcome = "NEW_USER"
           /\ req[r].created = 1
           /\ LET u == findUserByTelegramId(users, req[r].chat)
              IN /\ u # 0
                 /\ users[u].tier = "FREE"
                 /\ users[u].message_quota = QuotaFREE
                 /\ users[u].message_count = 0
                 /\ users[u].is_active = "true"
           /\ req[r].replies = <<"welcome">>
           /\ req[r].result = 0
           /\ req[r].incs = 0
           /\ req[r].pmCalls = 0
           /\ req[r].pc = "done"

\* The first message of an unseen chat created its user and was answered
\* with the welcome.
C4_Witness ==
    \E r \in ReqIds :
        /\ req[r].outcome = "NEW_USER"
        /\ req[r].alone
        /\ ~req[r].pre.exists
        /\ StoredUser(users, req[r].chat) =
              [exists |-> TRUE, is_active |-> "true", message_count |-> 0,
               message_quota |-> QuotaFREE]
        /\ req[r].replies = <<"welcome">>

C6_OrchestratorOnlyAfterProceed ==
    \A r \in ReqIds :
        /\ (\/ req[r].pmCalls > 0
            \/ req[r].aiKeys # << >>
            \/ req[r].execKeys # << >>
            \/ req[r].pc \in TailPcs \ {"done"})
              => /\ req[r].result # 0
                 /\ req[r].outcome = "PROCEED"
        /\ req[r].outcome \in {"NEW_USER", "INACTIVE", "QUOTA_EXCEEDED", "AUTH_ERROR",
                               "NEW_USER_ERROR"}
              => /\ req[r].result = 0
                 /\ req[r].pc = "done"
                 /\ req[r].pmCalls = 0
                 /\ req[r].aiKeys = << >>
                 /\ req[r].execKeys = << >>

\* A message that authenticate let through went through processMessage, a
\* completion call and an execution call.
C6_Witness ==
    \E r \in ReqIds :
        /\ req[r].outcome = "PROCEED"
        /\ req[r].result # 0
        /\ req[r].pmCalls = 1
        /\ req[r].aiKeys # << >>
        /\ req[r].execKeys # << >>

\* C7: an exception thrown by a store operation during gating is caught,
\* logged as a UsageLog failure entry where the user is known, and answered
\* with the generic authentication-error notice; authenticate returns null.
C7_StoreExceptionHandled ==
    \A r \in ReqIds :
        req[r].error # ""
        => /\ req[r].result = 0
           /\ req[r].replies = <<"auth_error">>
           /\ req[r].uid # 0
                => \E i \in 1..Len(usageLogs) :
                      /\ usageLogs[i].req = r
                      /\ usageLogs[i].success = "false"

\* C8: for every interleaving of concurrent authenticate calls of the same
\* user that reach the proceed path, the stored message_count is higher than
\* it started by exactly the number of those calls.
C8_NoLostUpdates ==
    \A c \in ChatIds :
        StoredCount(users, c) = history[c].start + history[c].proceeds

\* Two calls passed the quota test at 99 of 100 together; both were counted.
C8_Witness ==
    \E r \in ReqIds :
        /\ req[r].outcome = "PROCEED"
        /\ ~req[r].alone
        /\ history[req[r].chat].start = QuotaFREE - 1
        /\ history[req[r].chat].proceeds = 2
        /\ StoredCount(users, req[r].chat) = QuotaFREE + 1

(* ------------------------------------------------------------------ *)
(* Properties of the credential resolution of processMessage           *)
(* ------------------------------------------------------------------ *)

\* C9: when the user has a stored personal Gemini or E2B credential that
\* decrypts, processConversation and executeOperations are called with that
\* credential and not with the process-wide default.
C9_PersonalCredentialUsed ==
    \A r \in ReqIds :
        req[r].result # 0
        => LET gemini == decryptApiKey(users[req[r].uid].gemini_api_key_encrypted)
               e2b == decryptApiKey(users[req[r].uid].e2b_api_key_encrypted)
           IN /\ gemini # Null
                   => \A i \in 1..Len(req[r].aiKeys) : req[r].aiKeys[i] = gemini
              /\ e2b # Null
                   => \A i \in 1..Len(req[r].execKeys) : req[r].execKeys[i] = e2b

\* C10: when the user's stored credential is absent or does not decrypt,
\* processMessage uses the process-wide default and the pipeline goes on: a
\* valid message reaches the completion call, with the default credential.
C10_FallbackToDefaults ==
    \A r \in ReqIds :
        req[r].result # 0
        => LET gemini == decryptApiKey(users[req[r].uid].gemini_api_key_encrypted)
               e2b == decryptApiKey(users[req[r].uid].e2b_api_key_encrypted)
           IN /\ gemini = Null
                   => /\ req[r].apiKeys.gemini = GEMINI_API_KEY
                      /\ \A i \in 1..Len(req[r].aiKeys) :
                            req[r].aiKeys[i] = GEMINI_API_KEY
                      /\ (req[r].pc \in {"reply", "done"}
                            /\ validateInput(req[r].text) = "ok")
                            => req[r].aiKeys # << >>
              /\ e2b = Null
                   => /\ req[r].apiKeys.e2b = E2B_API_KEY
                      /\ \A i \in 1..Len(req[r].execKeys) :
                            req[r].execKeys[i] = E2B_API_KEY

\* A user whose stored blobs are damaged was answered, the completion and
\* the execution having run with the default credentials.
C10_Witness ==
    \E r \in ReqIds :
        /\ req[r].pc = "done"
        /\ req[r].result # 0
        /\ \E iv \in IVs :
              users[req[r].uid].gemini_api_key_encrypted = CorruptBlob("user-gemini-key", iv)
        /\ req[r].aiKeys = <<GEMINI_API_KEY, GEMINI_API_KEY>>
        /\ req[r].execKeys = <<E2B_API_KEY>>
        /\ req[r].response = "summary"

(* ------------------------------------------------------------------ *)
(* Specification of the cache helpers under a running clock            *)
(* ------------------------------------------------------------------ *)
MaxTicks == 3

\* The clock advances by a millisecond or by just under the TTL.
Delays == {1, ApiKeysTTL - 1}

\* The values setUserApiKeys is called with.
CachedKeySets ==
    {[geminiKey |-> "user-gemini-key", e2bKey |-> Null],
     [geminiKey |-> "user-gemini-key", e2bKey |-> "user-e2b-key"]}

InitCache ==
    /\ users = << >>
    /\ usageLogs = << >>
    /\ cache = [i \in {} |-> NoEntry]
    /\ conversations = << >>
    /\ messages = << >>
    /\ req = [r \in ReqIds |-> IdleRequest]
    /\ history = [c \in ChatIds |-> [start |-> 0, proceeds |-> 0, prompted |-> FALSE]]
    /\ now = 0
    /\ lookup = NoLookup
    /\ vault = NoVault
    /\ exec = NoExec
    /\ call = NoCall
    /\ outbox = NoOutbox
    /\ cleanup = NoCleanup
    /\ notice = NoNotice
    /\ http = NoHttp

\* Date.now() moves on between two calls.
CacheTick(d) ==
    /\ lookup.ticks < MaxTicks
    /\ now' = now + d
    /\ lookup' = [lookup EXCEPT !.ticks = @ + 1]
    /\ UNCHANGED <<outbox, cleanup, notice, http, call, users, usageLogs, cache, conversations, messages, req, history, vault, exec>>

\* cache.js setUserApiKeys -> setCachedKeys -> set.
CacheStore(userId, keys) ==
    /\ cache' = CacheSet(cache, userId, keys, now)
    /\ lookup' = [lookup EXCEPT !.op = "set", !.user = userId, !.at = now,
                                !.hit = FALSE, !.value = NoKeys,
                                !.set[userId] = now, !.stored[userId] = keys]
    /\ UNCHANGED <<outbox, cleanup, notice, http, call, users, usageLogs, conversations, messages, req, history, now, vault, exec>>

\* cache.js getUserApiKeys -> getCachedKeys -> get.
CacheLookup(userId) ==
    /\ cache' = CacheAfterGet(cache, userId, now)
    /\ lookup' = [lookup EXCEPT !.op = "get", !.user = userId, !.at = now,
                                !.hit = CacheGet(cache, userId, now).present,
                                !.value = CacheGet(cache, userId, now).value]
    /\ UNCHANGED <<outbox, cleanup, notice, http, call, users, usageLogs, conversations, messages, req, history, now, vault, exec>>

\* clearCachedKeys -> delete.
CacheClear(userId) ==
    /\ cache' = CacheDelete(cache, userId)
    /\ lookup' = [lookup EXCEPT !.op = "clear", !.user = userId, !.at = now,
                                !.hit = FALSE, !.value = NoKeys,
                                !.set[userId] = -1, !.stored[userId] = NoKeys]
    /\ UNCHANGED <<outbox, cleanup, notice, http, call, users, usageLogs, conversations, messages, req, history, now, vault, exec>>

NextCache ==
    \/ \E d \in Delays : CacheTick(d)
    \/ \E u \in CacheUsers : \E k \in CachedKeySets : CacheStore(u, k)
    \/ \E u \in CacheUsers : CacheLookup(u)
    \/ \E u \in CacheUsers : CacheClear(u)

SpecCache == InitCache /\ [][NextCache]_vars

\* C12: a get returns a value for a key only if the key was set, not deleted
\* since, and the time of the get is not past the time of that set plus the
\* 30 minute TTL, and then it returns the value that was set; a get past the
\* expiry is a miss and removes the entry.
C12_CacheGetWithinTTL ==
    lookup.op = "get" =>
        /\ lookup.hit =>
            /\ lookup.set[lookup.user] # -1
            /\ lookup.at <= lookup.set[lookup.user] + ApiKeysTTL
            /\ lookup.value = lookup.stored[lookup.user]
        /\ (lookup.set[lookup.user] # -1
              /\ lookup.at > lookup.set[lookup.user] + ApiKeysTTL) =>
            /\ ~lookup.hit
            /\ lookup.user \notin DOMAIN cache

\* A get exactly at the expiry time of an entry, which is a hit.
C12_Witness ==
    /\ lookup.op = "get"
    /\ lookup.hit
    /\ lookup.set[lookup.user] # -1
    /\ lookup.at = lookup.set[lookup.user] + ApiKeysTTL

(* ------------------------------------------------------------------ *)
(* Specification of the credential vault: a blob is written by         *)
(* encryptApiKey or arrives malformed, may be altered where it is      *)
(* stored, and is handed to decryptApiKey                              *)
(* ------------------------------------------------------------------ *)
\* The strings encryptApiKey is applied to.
Plaintexts == {"", "user-gemini-key", "user-e2b-key"}

\* The ways the text of a blob can differ from what encryptApiKey wrote, each
\* with the blob it gives:
\*   byte       a hex unit now spells another byte
\*   case       a hex unit is spelled in upper case
\*   nonhex     a hex unit is replaced by a character that is no hex digit
\*   trailing   a character that is no hex digit follows a segment
\*   shortened  the last hex unit of a segment is missing
\*   dropped    the last segment is missing
\*   added      a further ':'-separated segment follows
Alterations(blob) ==
    {[change |-> "byte", blob |-> [blob EXCEPT ![p[1]][p[2]] = HexUnit(OtherByte(@.byte))]] :
        p \in {q \in (1..3) \X (1..TagLength) : q[2] <= Len(blob[q[1]])}}
    \cup
    {[change |-> "case", blob |-> [blob EXCEPT ![p[1]][p[2]].upper = TRUE]] :
        p \in {q \in (1..3) \X (1..TagLength) : q[2] <= Len(blob[q[1]])}}
    \cup
    {[change |-> "nonhex", blob |-> [blob EXCEPT ![p[1]][p[2]] = Junk]] :
        p \in {q \in (1..3) \X (1..TagLength) : q[2] <= Len(blob[q[1]])}}
    \cup
    {[change |-> "trailing", blob |-> [blob EXCEPT ![i] = Append(@, Junk)]] : i \in 1..3}
    \cup
    {[change |-> "shortened", blob |-> [blob EXCEPT ![i] = SubSeq(@, 1, Len(@) - 1)]] :
        i \in {j \in 1..3 : blob[j] # << >>}}
    \cup
    {[change |-> "dropped", blob |-> SubSeq(blob, 1, 2)],
     [change |-> "added", blob |-> Append(blob, <<Junk>>)]}

\* Blobs encryptApiKey did not write: the empty string, text without hex
\* content, one and two segments, three segments without hex content.
MalformedBlobs ==
    {<< << >> >>,
     << <<Junk>> >>,
     <<HexEncode(IvBytes(1))>>,
     <<HexEncode(IvBytes(1)), HexEncode(TagBytes(ENCRYPTION_KEY, 1, "user-gemini-key"))>>,
     << <<Junk>>, <<Junk>>, <<Junk>> >>,
     << << >>, << >>, << >> >>}

InitVault ==
    /\ users = << >>
    /\ usageLogs = << >>
    /\ cache = [i \in {} |-> NoEntry]
    /\ conversations = << >>
    /\ messages = << >>
    /\ req = [r \in ReqIds |-> IdleRequest]
    /\ history = [c \in ChatIds |-> [start |-> 0, proceeds |-> 0, prompted |-> FALSE]]
    /\ now = 0
    /\ lookup = NoLookup
    /\ vault = NoVault
    /\ exec = NoExec
    /\ call = NoCall
    /\ outbox = NoOutbox
    /\ cleanup = NoCleanup
    /\ notice = NoNotice
    /\ http = NoHttp

\* encryptApiKey(x) with the IV randomBytes draws.
VaultEncrypt(x, iv) ==
    /\ vault.phase = "idle"
    /\ vault' = [vault EXCEPT !.phase = "sealed", !.origin = "encrypt", !.pt = x,
                              !.blob = encryptApiKey(x, iv)]
    /\ UNCHANGED <<outbox, cleanup, notice, http, call, users, usageLogs, cache, conversations, messages, req, history, now,
                   lookup, exec>>

\* A blob that encryptApiKey did not write is found in the column.
VaultMalformed(b) ==
    /\ vault.phase = "idle"
    /\ vault' = [vault EXCEPT !.phase = "sealed", !.origin = "malformed", !.blob = b]
    /\ UNCHANGED <<outbox, cleanup, notice, http, call, users, usageLogs, cache, conversations, messages, req, history, now,
                   lookup, exec>>

\* The stored text of a blob is altered, once.
VaultAlter ==
    /\ vault.phase = "sealed"
    /\ vault.origin = "encrypt"
    /\ vault.change = "none"
    /\ \E a \in Alterations(vault.blob) :
         vault' = [vault EXCEPT !.change = a.change, !.blob = a.blob]
    /\ UNCHANGED <<outbox, cleanup, notice, http, call, users, usageLogs, cache, conversations, messages, req, history, now,
                   lookup, exec>>

\* decryptApiKey(blob).
VaultDecrypt ==
    /\ vault.phase = "sealed"
    /\ vault' = [vault EXCEPT !.phase = "opened", !.out = decryptApiKey(vault.blob)]
    /\ UNCHANGED <<outbox, cleanup, notice, http, call, users, usageLogs, cache, conversations, messages, req, history, now,
                   lookup, exec>>

NextVault ==
    \/ \E x \in Plaintexts : \E iv \in IVs : VaultEncrypt(x, iv)
    \/ \E b \in MalformedBlobs : VaultMalformed(b)
    \/ VaultAlter
    \/ VaultDecrypt

SpecVault == InitVault /\ [][NextVault]_vars

C14_AlteredGivesNull ==
    (/\ vault.phase = "opened"
     /\ vault.origin = "malformed" \/ vault.change # "none") => vault.out = Null

\* C14, amended: decryptApiKey returns null or the plaintext that was
\* encrypted, never another plaintext (and it returns: every exception is
\* caught); it returns null for a malformed blob and for a blob of
\* encryptApiKey in which a byte of the IV, of the tag or of the ciphertext
\* spells another byte or whose last segment is missing.
C14_NullOrOriginal ==
    vault.phase = "opened" =>
        /\ vault.out = Null \/ (vault.origin = "encrypt" /\ vault.out = vault.pt)
        /\ vault.origin = "malformed" => vault.out = Null
        /\ vault.change \in {"byte", "dropped"} => vault.out = Null

\* A blob whose tag has one byte changed was handed to decryptApiKey.
C14_Witness ==
    /\ vault.phase = "opened"
    /\ vault.origin = "encrypt"
    /\ vault.change = "byte"
    /\ vault.pt # ""
    /\ HexDecode(vault.blob[2]) # TagBytes(ENCRYPTION_KEY, 1, vault.pt)
    /\ HexDecode(vault.blob[1]) = IvBytes(1)
    /\ vault.out = Null

(* ------------------------------------------------------------------ *)
(* Specification of a run of executeOperations (e2b.js)                *)
(* ------------------------------------------------------------------ *)
MaxOps == 2

\* The elements of an operations array.
OpKinds == {Op("read_file", FALSE), Op("write_file", FALSE), Op("deploy", FALSE), NullOp}

\* The arrays executeOperations is called with.
OperationLists == UNION {[1..n -> OpKinds] : n \in 1..MaxOps}

InitExecutor ==
    /\ users = << >>
    /\ usageLogs = << >>
    /\ cache = [i \in {} |-> NoEntry]
    /\ conversations = << >>
    /\ messages = << >>
    /\ req = [r \in ReqIds |-> IdleRequest]
    /\ history = [c \in ChatIds |-> [start |-> 0, proceeds |-> 0, prompted |-> FALSE]]
    /\ now = 0
    /\ lookup = NoLookup
    /\ vault = NoVault
    /\ exec = NoExec
    /\ call = NoCall
    /\ outbox = NoOutbox
    /\ cleanup = NoCleanup
    /\ notice = NoNotice
    /\ http = NoHttp

\* executeOperations(operations, apiKey) is called.
ExecStart(operations) ==
    /\ exec.pc = "idle"
    /\ exec' = [exec EXCEPT !.pc = "create", !.ops = operations]
    /\ UNCHANGED <<outbox, cleanup, notice, http, call, users, usageLogs, cache, conversations, messages, req, history, now,
                   lookup, vault>>

\* createSandbox returns response.data.sandboxID: an id, or undefined when
\* the response carries none.
ExecCreateSandbox(id) ==
    /\ exec.pc = "create"
    /\ exec' = [exec EXCEPT !.pc = "loop", !.created = TRUE, !.sandboxId = id]
    /\ UNCHANGED <<outbox, cleanup, notice, http, call, users, usageLogs, cache, conversations, messages, req, history, now,
                   lookup, vault>>

\* createSandbox throws; the outer catch rethrows.
ExecCreateSandboxThrows ==
    /\ exec.pc = "create"
    /\ exec' = [exec EXCEPT !.pc = "finally", !.pending = "threw"]
    /\ UNCHANGED <<outbox, cleanup, notice, http, call, users, usageLogs, cache, conversations, messages, req, history, now,
                   lookup, vault>>

\* One pass of the loop for an operation object: its result is pushed.
ExecOperation ==
    /\ exec.pc = "loop"
    /\ exec.next <= Len(exec.ops)
    /\ ~exec.ops[exec.next].null
    /\ exec' = [exec EXCEPT !.next = @ + 1,
                            !.results = Append(@, RunOperation(exec.ops[exec.next]))]
    /\ UNCHANGED <<outbox, cleanup, notice, http, call, users, usageLogs, cache, conversations, messages, req, history, now,
                   lookup, vault>>

\* One pass of the loop for a null element: operation.type throws in the try
\* and again in the handler of the inner catch, so the exception leaves the
\* loop and the outer catch rethrows it.
ExecOperationEscapes ==
    /\ exec.pc = "loop"
    /\ exec.next <= Len(exec.ops)
    /\ exec.ops[exec.next].null
    /\ exec' = [exec EXCEPT !.pc = "finally", !.pending = "threw"]
    /\ UNCHANGED <<outbox, cleanup, notice, http, call, users, usageLogs, cache, conversations, messages, req, history, now,
                   lookup, vault>>

\* The loop is over: return results.
ExecLoopEnd ==
    /\ exec.pc = "loop"
    /\ exec.next > Len(exec.ops)
    /\ exec' = [exec EXCEPT !.pc = "finally", !.pending = "returned"]
    /\ UNCHANGED <<outbox, cleanup, notice, http, call, users, usageLogs, cache, conversations, messages, req, history, now,
                   lookup, vault>>

\* Variant: a deleteSandbox that failed makes executeOperations throw.
CompletionAfterCleanup_surfaced(pending, deleted) ==
    IF deleted THEN pending ELSE "threw"

\* The finally block completes as the try or catch it interrupted did:
\* deleteSandbox catches its own failure and returns false, and the call is
\* wrapped in a try/catch of its own.
CompletionAfterCleanup(pending, deleted) == pending

\* finally with a sandbox id: deleteSandbox, which succeeds or fails.
ExecDeleteSandbox(ok) ==
    /\ exec.pc = "finally"
    /\ exec.sandboxId # 0
    /\ exec' = [exec EXCEPT !.pc = "done", !.deletes = @ + 1, !.deleted = ok,
                            !.outcome = CompletionAfterCleanup(exec.pending, ok),
                            !.returned = IF CompletionAfterCleanup(exec.pending, ok) = "returned"
                                         THEN exec.results ELSE << >>]
    /\ UNCHANGED <<outbox, cleanup, notice, http, call, users, usageLogs, cache, conversations, messages, req, history, now,
                   lookup, vault>>

\* finally without a sandbox id: nothing to clean up.
ExecNoCleanup ==
    /\ exec.pc = "finally"
    /\ exec.sandboxId = 0
    /\ exec' = [exec EXCEPT !.pc = "done", !.outcome = exec.pending,
                            !.returned = IF exec.pending = "returned"
                                         THEN exec.results ELSE << >>]
    /\ UNCHANGED <<outbox, cleanup, notice, http, call, users, usageLogs, cache, conversations, messages, req, history, now,
                   lookup, vault>>

NextExecutor ==
    \/ \E operations \in OperationLists : ExecStart(operations)
    \/ \E id \in {0, 1} : ExecCreateSandbox(id)
    \/ ExecCreateSandboxThrows
    \/ ExecOperation
    \/ ExecOperationEscapes
    \/ ExecLoopEnd
    \/ \E ok \in BOOLEAN : ExecDeleteSandbox(ok)
    \/ ExecNoCleanup

SpecExecutor == InitExecutor /\ [][NextExecutor]_vars

\* C17: in a run of executeOperations in which createSandbox returned a
\* sandbox id, deleteSandbox has been called exactly once when the run returns
\* or throws, and never more than once; whether deleteSandbox succeeded or
\* failed, a run whose loop finished returns the results of all operations,
\* and a run throws only when createSandbox threw or an exception left the
\* loop.
C17_SandboxAlwaysReleased ==
    /\ exec.deletes <= 1
    /\ exec.pc # "done" => exec.outcome = "none"
    /\ exec.pc = "done" =>
         /\ exec.outcome \in {"returned", "threw"}
         /\ exec.sandboxId # 0 => exec.deletes = 1
         /\ exec.sandboxId = 0 => exec.deletes = 0
         /\ exec.outcome = exec.pending
         /\ exec.pending = "returned" =>
              exec.returned = [i \in 1..Len(exec.ops) |-> RunOperation(exec.ops[i])]

\* A run with a failed operation returned its results although deleteSandbox
\* failed.
C17_Witness ==
    /\ exec.pc = "done"
    /\ exec.sandboxId # 0
    /\ exec.deletes = 1
    /\ ~exec.deleted
    /\ exec.outcome = "returned"
    /\ \E i \in 1..Len(exec.returned) : ~exec.returned[i].success

\* C18: a run of executeOperations whose sandbox was created returns exactly
\* one result per requested operation, in request order, with success false
\* and an error for an operation that failed, threw or has an unknown type.
C18_OneResultPerOperation ==
    (exec.pc = "done" /\ exec.created) =>
        /\ exec.outcome = "returned"
        /\ Len(exec.returned) = Len(exec.ops)
        /\ \A i \in 1..Len(exec.ops) :
             (exec.ops[i].null \/ exec.ops[i].type \notin KnownTypes) =>
                 (~exec.returned[i].success /\ exec.returned[i].error # "")

(* ------------------------------------------------------------------ *)
(* Specification with the key management routes (routes/keys.js)       *)
(* beside the message handlers                                         *)
(* ------------------------------------------------------------------ *)
MaxKeyCalls == 1

\* encrypt(text) of routes/keys.js: an aes-256-cbc text "iv:ciphertext".
RouteEncrypt(text) == "cbc:" \o text

\* updateUser(userId, updateData): gemini_api_key and e2b_api_key are passed
\* through encryptApiKey when truthy and stored as null otherwise; other
\* fields are assigned.
updateUser(us, userId, updateData, iv) ==
    IF userId \notin 1..Len(us) THEN us
    ELSE [us EXCEPT ![userId] =
            [@ EXCEPT !.gemini_api_key_encrypted =
                          IF Truthy(updateData.gemini_api_key)
                          THEN encryptApiKey(updateData.gemini_api_key, iv)
                          ELSE NullBlob,
                      !.e2b_api_key_encrypted =
                          IF Truthy(updateData.e2b_api_key)
                          THEN encryptApiKey(updateData.e2b_api_key, iv)
                          ELSE NullBlob,
                      !.tier = updateData.tier]]

\* The request bodies of POST /activate: keys of valid format, and a Gemini
\* key of invalid format.
ActivationBodies ==
    {[gemini_api_key |-> "AIza-new-gemini-key", e2b_api_key |-> "e2b_new-key", valid |-> TRUE],
     [gemini_api_key |-> "not-a-gemini-key", e2b_api_key |-> "e2b_new-key", valid |-> FALSE]}

\* The key management calls that completed, as the usage log records them.
KeyCalls(logs) ==
    Cardinality({i \in 1..Len(logs) :
                    logs[i].operation_type \in {"API_KEY_ACTIVATED", "API_KEYS_REVOKED"}})

\* POST /api/keys/activate: 400 for keys of invalid format; otherwise the
\* user of the chat is looked up or created, the keys are stored and the call
\* is logged.  The cache is not touched.
KeysActivate(c, body, iv) ==
    /\ KeyCalls(usageLogs) < MaxKeyCalls
    /\ IF ~body.valid
       THEN UNCHANGED <<users, usageLogs>>
       ELSE LET found == findUserByTelegramId(users, c)
                us1 == IF found = 0
                       THEN createUser(users, [telegram_chat_id |-> c, username |-> "user"])
                       ELSE users
                id == IF found = 0 THEN Len(us1) ELSE found
            IN /\ users' = updateUser(us1, id,
                               [gemini_api_key |-> RouteEncrypt(body.gemini_api_key),
                                e2b_api_key |-> RouteEncrypt(body.e2b_api_key),
                                tier |-> "BASIC"], iv)
               /\ usageLogs' = logUsage(usageLogs, 0,
                               [user_id |-> "user_" \o ToString(id),
                                action |-> "API_KEY_ACTIVATED",
                                success |-> "true", message |-> "activated"])
    /\ UNCHANGED <<outbox, cleanup, notice, http, call, cache, conversations, messages, req, history, now, lookup, vault, exec>>

\* DELETE /api/keys/revoke: 404 when the chat has no user; otherwise the
\* stored keys are set to null and the call is logged.  The cache is not
\* touched.
KeysRevoke(c) ==
    /\ KeyCalls(usageLogs) < MaxKeyCalls
    /\ LET found == findUserByTelegramId(users, c)
       IN IF found = 0
          THEN UNCHANGED <<users, usageLogs>>
          ELSE /\ users' = updateUser(users, found,
                               [gemini_api_key |-> Null, e2b_api_key |-> Null,
                                tier |-> "FREE"], 1)
               /\ usageLogs' = logUsage(usageLogs, 0,
                               [user_id |-> "user_" \o ToString(found),
                                action |-> "API_KEYS_REVOKED",
                                success |-> "true", message |-> "revoked"])
    /\ UNCHANGED <<outbox, cleanup, notice, http, call, cache, conversations, messages, req, history, now, lookup, vault, exec>>

NextKeys ==
    \/ Next
    \/ \E c \in ChatIds : \E body \in ActivationBodies : \E iv \in IVs :
           KeysActivate(c, body, iv)
    \/ \E c \in ChatIds : KeysRevoke(c)

SpecKeys == Init /\ [][NextKeys]_vars

\* C11: a processMessage that starts after an update or revoke of the user's
\* credentials completed never reads an api_keys entry cached before it: the
\* cached keys it reads are the ones the store holds.
C11_NoStaleCredentials ==
    \A r \in ReqIds : ~req[r].stale

\* The chat id of GET /status as the route receives it: a query parameter is
\* a string, whatever the client meant.
QueryParam(c) == [t |-> "string", v |-> c.v]

\* GET /api/keys/status?telegram_chat_id=...: { has_keys, tier } of the user
\* findUserByTelegramId returns, { false, 'FREE' } when it returns none.
KeysStatus(us, telegram_chat_id) ==
    LET found == findUserByTelegramId(us, telegram_chat_id)
    IN IF found = 0 THEN [has_keys |-> FALSE, tier |-> "FREE"]
       ELSE [has_keys |-> /\ Truthy(Field(us[found], "gemini_api_key"))
                          /\ Truthy(Field(us[found], "e2b_api_key")),
             tier |-> us[found].tier]

\* The key management call the usage log records last, for the user with the
\* given id: "none" when there is none.
LastKeyCall(logs, id) ==
    LET calls == {i \in 1..Len(logs) :
                    /\ logs[i].operation_type \in {"API_KEY_ACTIVATED", "API_KEYS_REVOKED"}
                    /\ logs[i].user_id = "user_" \o ToString(id)}
    IN IF calls = {} THEN "none"
       ELSE logs[CHOOSE i \in calls : \A j \in calls : j <= i].operation_type

\* C26: every stored user's message_quota is the quota ceiling of the user's
\* tier (FREE 100, BASIC 500, PRO 1000), at creation and after every
\* activation and revocation.
C26_QuotaMatchesTier ==
    \A i \in 1..Len(users) : users[i].message_quota = TierQuota(users[i].tier)

\* C28: no two stored users have the same chat identity.
C28_OneUserPerChat ==
    \A i, j \in 1..Len(users) :
        users[i].telegram_chat_id = users[j].telegram_chat_id => i = j

\* C29: after an activation with the keys (g, e) completed for a user, the
\* stored blobs are not the plaintext keys and getUserApiKeys returns g and e.
C29_ActivatedKeysRoundTrip ==
    \A i \in 1..Len(users) :
        LastKeyCall(usageLogs, i) = "API_KEY_ACTIVATED" =>
            \E body \in ActivationBodies :
                /\ body.valid
                /\ getUserApiKeys(users, i) =
                      [geminiKey |-> body.gemini_api_key, e2bKey |-> body.e2b_api_key]

\* C30: once activate or revoke requests have been served for the user of a
\* chat, GET /status for the chat id reports has_keys = true exactly when the
\* user has both credentials stored, and the user's tier: true and BASIC after
\* an activation, false and FREE after a revoke or when the chat has no user.
C30_StatusReportsKeys ==
    \A c \in ChatIds :
        LET found == findUserByTelegramId(users, c)
            status == KeysStatus(users, QueryParam(c))
        IN IF found = 0 THEN status = [has_keys |-> FALSE, tier |-> "FREE"]
           ELSE /\ LastKeyCall(usageLogs, found) # "none" =>
                     /\ status.has_keys <=>
                          /\ users[found].gemini_api_key_encrypted # NullBlob
                          /\ users[found].e2b_api_key_encrypted # NullBlob
                     /\ status.tier = users[found].tier
                /\ LastKeyCall(usageLogs, found) = "API_KEY_ACTIVATED" =>
                     status = [has_keys |-> TRUE, tier |-> "BASIC"]
                /\ LastKeyCall(usageLogs, found) = "API_KEYS_REVOKED" =>
                     status = [has_keys |-> FALSE, tier |-> "FREE"]

(* ------------------------------------------------------------------ *)
(* Properties of processMessage                                        *)
(* ------------------------------------------------------------------ *)

\* C15: when processMessage has run on a message that is empty, only
\* whitespace or longer than 8000 characters, neither processConversation nor
\* executeOperations was called and the reply is the validation error (too
\* long, or empty); a message of exactly 8000 characters is not rejected.
C15_InvalidInputRejectedLocally ==
    \A r \in ReqIds :
        (req[r].pmCalls > 0 /\ req[r].pc \in {"reply", "done"}) =>
            /\ (req[r].text.len = 0 \/ req[r].text.blank
                  \/ req[r].text.len > MaxMessageLength) =>
                 /\ req[r].aiKeys = << >>
                 /\ req[r].execKeys = << >>
                 /\ req[r].response =
                      (IF req[r].text.len > MaxMessageLength THEN "too_long" ELSE "empty")
                 /\ req[r].pc = "done" => req[r].replies = <<req[r].response>>
            /\ (req[r].text.len = MaxMessageLength /\ ~req[r].text.blank
                  /\ ~req[r].text.danger) =>
                 /\ req[r].response \notin {"too_long", "empty", "dangerous"}
                 /\ req[r].aiKeys # << >>

\* A message of three blanks was answered with the validation error.
C15_Witness ==
    \E r \in ReqIds :
        /\ req[r].pc = "done"
        /\ req[r].text = Text(3, TRUE, FALSE)
        /\ req[r].replies = <<"empty">>
        /\ req[r].aiKeys = << >>

\* C16: when processMessage has finished on a message that passed
\* validation and has a conversation, this handler saved the message as a
\* USER message, whatever the outcome of the completion call.
C16_UserMessagePersisted ==
    \A r \in ReqIds :
        (/\ req[r].pc = "done"
         /\ req[r].pmCalls > 0
         /\ validateInput(req[r].text) = "ok"
         /\ req[r].conv # 0) =>
            \E i \in 1..Len(req[r].saved) : req[r].saved[i] = "USER"

\* C19: when executeOperations reported a failed operation, a follow-up
\* completion call was made before the reply and was given results that hold
\* the failure.
C19_FailuresFedBack ==
    \A r \in ReqIds :
        (/\ req[r].pc \in {"reply", "done"}
         /\ \E i \in 1..Len(req[r].results) : ~req[r].results[i].success) =>
            /\ Len(req[r].aiKeys) = 2
            /\ \E j \in 1..Len(req[r].fed) : req[r].fed[j].line = "Operation failed"

\* C20: for one message processConversation is called at most twice and
\* executeOperations at most once; the second completion call is made only
\* after a first response with operations and status in_progress; only the
\* operations of the first response are ever handed to executeOperations.
C20_AtMostOneExtraRound ==
    \A r \in ReqIds :
        /\ req[r].pmCalls <= 1
        /\ Len(req[r].aiKeys) <= 2
        /\ Len(req[r].execKeys) <= 1
        /\ Len(req[r].executed) = Len(req[r].execKeys)
        /\ Len(req[r].aiKeys) = 2 =>
             /\ req[r].ai.ops # << >>
             /\ req[r].ai.status = "in_progress"
        /\ \A i \in 1..Len(req[r].executed) :
             /\ req[r].executed[i] = req[r].ai.ops
             /\ req[r].ai.ops # << >>

\* A follow-up response that holds operations was returned as the reply with
\* one executeOperations call, the one of the first response.
C20_Witness ==
    \E r \in ReqIds :
        /\ req[r].pc = "done"
        /\ Len(req[r].aiKeys) = 2
        /\ req[r].ai2.ops # << >>
        /\ req[r].ai2.status = "in_progress"
        /\ req[r].executed = <<req[r].ai.ops>>
        /\ req[r].replies = <<"summary">>

\* The messages this handler saved: nothing else is appended to the store
\* between the first save of a turn and the end of the handler.
SavedMessages(r) ==
    SubSeq(messages, Len(messages) - Len(req[r].saved) + 1, Len(messages))

\* The completion calls and the execution call of the turn all returned.
TurnSucceeded(r) ==
    /\ req[r].pc \in {"reply", "done"}
    /\ req[r].ai # NoResponse
    /\ Len(req[r].ai.ops) > 0 => Len(req[r].results) = Len(req[r].ai.ops)
    /\ (Len(req[r].ai.ops) > 0 /\ req[r].ai.status = "in_progress") =>
           req[r].ai2 # NoResponse

TurnFailed(r) ==
    /\ req[r].pc \in {"reply", "done"}
    /\ \E m \in CollaboratorMessages : req[r].response = ErrorReply(m)

\* C22: when the completion provider or the executor threw, processMessage
\* returned a reply text and the usage log holds a failure entry written by
\* this handler.
C22_FailureEntryRecorded ==
    \A r \in ReqIds :
        TurnFailed(r) =>
            /\ req[r].response # ""
            /\ \E i \in 1..Len(usageLogs) :
                  /\ usageLogs[i].req = r
                  /\ usageLogs[i].success = "false"

\* C23: no reply sent to a chat holds the message of an exception a
\* collaborator threw.
C23_NoRawExceptionText ==
    \A r \in ReqIds : \A i \in 1..Len(req[r].replies) :
        \A m \in CollaboratorMessages : req[r].replies[i] # ErrorReply(m)
\* C24: every handler that passed the gate called processMessage and sent
\* the text it returned to the chat, whether or not a store call of the
\* handler failed.
C24_AnswerDeliveredDespiteStore ==
    \A r \in ReqIds :
        (req[r].pc = "done" /\ req[r].result # 0) =>
            /\ req[r].pmCalls = 1
            /\ req[r].replies # << >>
            /\ req[r].replies[Len(req[r].replies)] = req[r].response
(* ------------------------------------------------------------------ *)
(* callGemini (gemini.js): the retry loop around the HTTP call         *)
(* ------------------------------------------------------------------ *)

\* callGemini(prompt, apiKey = null, retries = 3): processConversation, its
\* only caller, passes no third argument.
DefaultRetries == 3

\* Variant: the exponent is the attempt number.
Backoff_offByOne(attempt) ==
    LET d == 1000 * 2 ^ attempt
    IN IF d < 10000 THEN d ELSE 10000

\* Math.min(1000 * Math.pow(2, attempt - 1), 10000)
Backoff(attempt) ==
    LET d == 1000 * 2 ^ (attempt - 1)
    IN IF d < 10000 THEN d ELSE 10000

\* What an attempt can fail with: axios rejects with an HTTP status, with a
\* timeout or a network error code, or the response body lacks a candidate
\* or its text.
AttemptFailures ==
    {"400", "401", "403", "429", "500", "503", "ECONNABORTED", "ENOTFOUND",
     "ECONNRESET", "invalid_structure", "empty_text"}

\* The message of the error thrown after the last attempt (363-395).
GeminiErrorMessage(failure) ==
    CASE failure = "400" -> "Invalid request to Gemini API"
      [] failure = "401" -> "Authentication failed with Gemini API"
      [] failure = "403" -> "Access forbidden to Gemini API"
      [] failure = "429" -> "Rate limit exceeded for Gemini API"
      [] failure = "500" -> "Gemini API server error"
      [] failure = "503" -> "Gemini API error (503)"
      [] failure = "ECONNABORTED" -> "Gemini API request timed out"
      [] failure = "ENOTFOUND" -> "Cannot connect to Gemini API"
      [] OTHER -> "Failed to get response from Gemini AI"

InitGemini ==
    /\ users = << >>
    /\ usageLogs = << >>
    /\ cache = [i \in {} |-> NoEntry]
    /\ conversations = << >>
    /\ messages = << >>
    /\ req = [r \in ReqIds |-> IdleRequest]
    /\ history = [c \in ChatIds |-> [start |-> 0, proceeds |-> 0, prompted |-> FALSE]]
    /\ now = 0
    /\ lookup = NoLookup
    /\ vault = NoVault
    /\ exec = NoExec
    /\ call = NoCall
    /\ outbox = NoOutbox
    /\ cleanup = NoCleanup
    /\ notice = NoNotice
    /\ http = NoHttp

\* callGemini is called (again, once the previous call has completed): the
\* loop is entered and the first request is posted.
GeminiCall ==
    /\ call.pc \in {"idle", "returned", "threw"}
    /\ call' = [NoCall EXCEPT !.pc = "post", !.attempt = 1, !.posts = 1]
    /\ UNCHANGED <<outbox, cleanup, notice, http, users, usageLogs, cache, conversations, messages, req, history, now,
                   lookup, vault, exec>>

\* The posted request is answered with a candidate that has a text: the
\* response object is returned.
GeminiPostSucceeds ==
    /\ call.pc = "post"
    /\ call' = [call EXCEPT !.pc = "returned", !.result = CompletionText(1)]
    /\ UNCHANGED <<outbox, cleanup, notice, http, users, usageLogs, cache, conversations, messages, req, history, now,
                   lookup, vault, exec>>

\* The attempt fails: after the last attempt the catch block throws,
\* otherwise it starts the timer of the backoff delay.
GeminiPostFails(failure) ==
    /\ call.pc = "post"
    /\ call' = IF call.attempt = DefaultRetries
               THEN [call EXCEPT !.pc = "threw",
                                 !.failures = Append(@, failure),
                                 !.error = GeminiErrorMessage(failure)]
               ELSE [call EXCEPT !.pc = "wait",
                                 !.failures = Append(@, failure),
                                 !.delays = Append(@, Backoff(call.attempt))]
    /\ UNCHANGED <<outbox, cleanup, notice, http, users, usageLogs, cache, conversations, messages, req, history, now,
                   lookup, vault, exec>>

\* The timer fires: attempt++, and the loop posts the next request when
\* attempt <= retries.
GeminiTimer ==
    /\ call.pc = "wait"
    /\ call' = IF call.attempt + 1 <= DefaultRetries
               THEN [call EXCEPT !.pc = "post", !.attempt = @ + 1, !.posts = @ + 1]
               ELSE [call EXCEPT !.pc = "fell_through", !.attempt = @ + 1]
    /\ UNCHANGED <<outbox, cleanup, notice, http, users, usageLogs, cache, conversations, messages, req, history, now,
                   lookup, vault, exec>>

NextGemini ==
    \/ GeminiCall
    \/ GeminiPostSucceeds
    \/ \E failure \in AttemptFailures : GeminiPostFails(failure)
    \/ GeminiTimer

SpecGemini == InitGemini /\ [][NextGemini]_vars

\* Every posted request is answered or times out (axios is given a timeout
\* of 30 s) and every timer fires: a call that can take a step takes it.
SpecGeminiLive == SpecGemini /\ WF_vars(GeminiPostSucceeds)
                             /\ WF_vars(\E failure \in AttemptFailures : GeminiPostFails(failure))
                             /\ WF_vars(GeminiTimer)

\* C25: a call of callGemini posts at most 3 requests and none after a
\* successful one; after the k-th failed attempt that is followed by another
\* it has waited min(1000 * 2^(k-1), 10000) ms; it throws exactly after a 3rd
\* failed attempt; a completed call has either returned a response object or
\* thrown an error, never both or neither; and every call completes.
C25_RetryContract ==
    /\ [](/\ call.posts <= 3
          /\ call.pc \in {"idle", "post", "wait", "returned", "threw"}
          /\ call.pc = "returned" =>
                /\ call.posts = Len(call.failures) + 1
                /\ call.result # "none" /\ call.error = "none"
          /\ call.pc = "threw" <=> Len(call.failures) = 3
          /\ call.pc = "threw" => (call.result = "none" /\ call.error # "none")
          /\ call.pc \in {"post", "wait"} => (call.result = "none" /\ call.error = "none")
          /\ Len(call.delays) = (IF call.pc = "threw" THEN 2 ELSE Len(call.failures))
          /\ \A k \in 1..Len(call.delays) :
                call.delays[k] = (IF 1000 * 2 ^ (k - 1) < 10000
                                  THEN 1000 * 2 ^ (k - 1) ELSE 10000))
    /\ [](call.pc \in {"post", "wait"} => <>(call.pc \in {"returned", "threw"}))

\* A call that failed twice, waited 1000 ms and 2000 ms, and succeeded on
\* its third attempt.
C25_Witness ==
    /\ call.pc = "returned"
    /\ call.posts = 3
    /\ call.delays = <<1000, 2000>>
    /\ call.result # "none"
(* ------------------------------------------------------------------ *)
(* Quota periods: the writes to a user's message_count and             *)
(* quota_reset_date by the gate, the key routes and the monthly reset  *)
(* job (jobs/cleanup.js)                                               *)
(* ------------------------------------------------------------------ *)
MaxDays == 3
MaxCount == 3

\* Variant: the job clears the counters and leaves the dates.
resetMonthlyQuotas_keepDate(us, first, t) ==
    [i \in 1..Len(us) |->
        IF us[i].quota_reset_date < first
        THEN [us[i] EXCEPT !.message_count = 0]
        ELSE us[i]]

\* prisma.user.updateMany({ where: { quota_reset_date: { lt: first } },
\* data: { message_count: 0, quota_reset_date: new Date() } }), first being
\* the first day of the current month and t the time of the call.
resetMonthlyQuotas(us, first, t) ==
    [i \in 1..Len(us) |->
        IF us[i].quota_reset_date < first
        THEN [us[i] EXCEPT !.message_count = 0, !.quota_reset_date = DayOf(t)]
        ELSE us[i]]

\* The users earlier runs left behind: of either tier, with or without
\* messages counted, whose quota period ended long ago, ended two days
\* before the process started, or has just begun.
QuotaUsers ==
    {[NewUserRecord(Num(1), tier) EXCEPT !.message_count = n, !.quota_reset_date = d] :
        tier \in {"FREE", "BASIC"}, n \in {0, MaxCount - 1}, d \in {-45, -2, 30}}

InitQuota ==
    /\ now = 0
    /\ users \in {<< >>} \cup {<<u>> : u \in QuotaUsers}
    /\ usageLogs = << >>
    /\ cache = [i \in {} |-> NoEntry]
    /\ conversations = << >>
    /\ messages = << >>
    /\ req = [r \in ReqIds |-> IdleRequest]
    /\ history = [c \in ChatIds |-> [start |-> 0, proceeds |-> 0, prompted |-> FALSE]]
    /\ lookup = NoLookup
    /\ vault = NoVault
    /\ exec = NoExec
    /\ call = NoCall
    /\ outbox = NoOutbox
    /\ cleanup = NoCleanup
    /\ notice = NoNotice
    /\ http = NoHttp

\* A day passes.
QuotaDayPasses ==
    /\ DayOf(now) < MaxDays
    /\ now' = now + 24 * 60 * 60 * 1000
    /\ UNCHANGED <<outbox, cleanup, notice, http, users, call, usageLogs, cache, conversations, messages, req, history,
                   lookup, vault, exec>>

\* authenticate for a chat without user (a text message or a bot command):
\* handleNewUser creates the user.
QuotaNewUser(c) ==
    /\ findUserByTelegramId(users, c) = 0
    /\ users' = createUser(users, [telegramChatId |-> c, tier |-> "FREE"])
    /\ UNCHANGED <<outbox, cleanup, notice, http, now, call, usageLogs, cache, conversations, messages, req, history,
                   lookup, vault, exec>>

\* authenticate lets a message or a bot command of user i pass: updateUser
\* with the new updated_at, then incrementMessageCount.
QuotaGatePass(i) ==
    /\ i \in 1..Len(users)
    /\ ~IsDeactivated(users[i])
    /\ checkUserQuota(users, i).hasQuota
    /\ users[i].message_count < MaxCount
    /\ users' = incrementMessageCount(touchUser(users, i), i)
    /\ UNCHANGED <<outbox, cleanup, notice, http, now, call, usageLogs, cache, conversations, messages, req, history,
                   lookup, vault, exec>>

\* POST /activate and DELETE /revoke for user i: their updateUser calls.
QuotaKeysChange(i, activate) ==
    /\ i \in 1..Len(users)
    /\ users' = IF activate
                THEN updateUser(users, i,
                         [gemini_api_key |-> RouteEncrypt("AIza-new-gemini-key"),
                          e2b_api_key |-> RouteEncrypt("e2b_new-key"),
                          tier |-> "BASIC"], 1)
                ELSE updateUser(users, i,
                         [gemini_api_key |-> Null, e2b_api_key |-> Null,
                          tier |-> "FREE"], 1)
    /\ users' # users    \* a call that changes no field is no step
    /\ UNCHANGED <<outbox, cleanup, notice, http, now, call, usageLogs, cache, conversations, messages, req, history,
                   lookup, vault, exec>>

\* CleanupJobs.resetMonthlyQuotas runs (scheduled for the first of the month,
\* callable at any time): the first day of the current month is today or one
\* of the 30 days before.
QuotaResetJob(first) ==
    /\ first \in (DayOf(now) - 30)..DayOf(now)
    /\ users' = resetMonthlyQuotas(users, first, now)
    /\ users' # users
    /\ UNCHANGED <<outbox, cleanup, notice, http, now, call, usageLogs, cache, conversations, messages, req, history,
                   lookup, vault, exec>>

NextQuota ==
    \/ QuotaDayPasses
    \/ \E c \in ChatIds : QuotaNewUser(c)
    \/ \E i \in 1..Len(users) : QuotaGatePass(i)
    \/ \E i \in 1..Len(users) : \E activate \in BOOLEAN : QuotaKeysChange(i, activate)
    \/ \E first \in (DayOf(now) - 30)..DayOf(now) : QuotaResetJob(first)

SpecQuota == InitQuota /\ [][NextQuota]_vars

\* C27: no step lowers or overwrites a user's message_count, except a quota
\* reset, which sets it to 0 and moves the user's quota_reset_date to a later
\* date: in every step each user's message_count stays, grows by one, or
\* becomes 0 together with a later quota_reset_date.
C27_CountOnlyResetByJob ==
    [][\A i \in 1..Len(users) :
          /\ i <= Len(users')
          /\ \/ users'[i].message_count = users[i].message_count
             \/ users'[i].message_count = users[i].message_count + 1
             \/ /\ users'[i].message_count = 0
                /\ users'[i].quota_reset_date > users[i].quota_reset_date]_vars

\* A user whose counter the job has reset (only the job stores today's date
\* as quota_reset_date) and who has sent a message since.
C27_Witness ==
    \E i \in 1..Len(users) :
        /\ DayOf(now) > 0
        /\ users[i].quota_reset_date = DayOf(now)
        /\ users[i].message_count = 1

(* ------------------------------------------------------------------ *)
(* POST /api/keys/activate with its validation (routes/keys.js)        *)
(* ------------------------------------------------------------------ *)
\* A JSON string of a request body: its text, its length and its first four
\* characters.
Str(prefix, length) ==
    [t |-> "string", v |-> prefix \o "#" \o ToString(length),
     length |-> length, prefix |-> IF length >= 4 THEN prefix ELSE ""]

\* A body field that is absent.
Absent == [t |-> "undefined"]

\* !x of JavaScript for a body field.
Not(x) ==
    \/ x.t = "undefined"
    \/ x.t = "string" /\ x.length = 0
    \/ x.t = "number" /\ x.v = 0

isValidGeminiApiKey_atLeast(key) ==
    ~Not(key) /\ key.t = "string" /\ key.length >= 39 /\ key.prefix = "AIza"

\* isValidGeminiApiKey(key): a string of 39 characters that starts with AIza.
isValidGeminiApiKey(key) ==
    ~Not(key) /\ key.t = "string" /\ key.length = 39 /\ key.prefix = "AIza"

\* isValidE2BApiKey(key): a string of 45 characters that starts with e2b_.
isValidE2BApiKey(key) ==
    ~Not(key) /\ key.t = "string" /\ key.prefix = "e2b_" /\ key.length = 45

\* The values a client may send as gemini_api_key: nothing, a number, and
\* strings around the accepted shape.
BodyGeminiKeys ==
    {Absent, Num(39), Str("BIza", 39), Str("e2b_", 45)}
    \cup {Str("AIza", n) : n \in {38, 39, 40}}

\* The values a client may send as e2b_api_key: nothing, the empty string,
\* and strings around the accepted shape.
BodyE2BKeys ==
    {Absent, Str("", 0), Str("e2c_", 45), Str("AIza", 39)}
    \cup {Str("e2b_", n) : n \in {44, 45, 46}}

\* The values a client may send as telegram_chat_id.
BodyChatIds == ChatIds \cup {Absent}

\* router.post('/activate'): 400 for a missing chat id, a missing key and a
\* key of invalid format, in this order; otherwise the user of the chat is
\* looked up or created, the encrypted keys and the BASIC tier are stored,
\* the call is logged and the response is 200.
ActivateStatus(telegram_chat_id, gemini_api_key, e2b_api_key) ==
    IF Not(telegram_chat_id) THEN 400
    ELSE IF Not(gemini_api_key) \/ Not(e2b_api_key) THEN 400
    ELSE IF ~isValidGeminiApiKey(gemini_api_key) THEN 400
    ELSE IF ~isValidE2BApiKey(e2b_api_key) THEN 400
    ELSE 200

RouteActivate(telegram_chat_id, gemini_api_key, e2b_api_key) ==
    /\ KeyCalls(usageLogs) < MaxKeyCalls
    /\ LET status == ActivateStatus(telegram_chat_id, gemini_api_key, e2b_api_key)
       IN /\ http' = [status |-> status,
                      telegram_chat_id |-> telegram_chat_id,
                      gemini_api_key |-> gemini_api_key,
                      e2b_api_key |-> e2b_api_key,
                      users |-> users, usageLogs |-> usageLogs]
          /\ IF status # 200
             THEN UNCHANGED <<users, usageLogs>>
             ELSE LET found == findUserByTelegramId(users, telegram_chat_id)
                      us1 == IF found = 0
                             THEN createUser(users, [telegram_chat_id |-> telegram_chat_id,
                                                     username |-> "user"])
                             ELSE users
                      id == IF found = 0 THEN Len(us1) ELSE found
                  IN /\ \E iv \in IVs :
                          users' = updateUser(us1, id,
                                     [gemini_api_key |-> RouteEncrypt(gemini_api_key.v),
                                      e2b_api_key |-> RouteEncrypt(e2b_api_key.v),
                                      tier |-> "BASIC"], iv)
                     /\ usageLogs' = logUsage(usageLogs, 0,
                                     [user_id |-> "user_" \o ToString(id),
                                      action |-> "API_KEY_ACTIVATED",
                                      success |-> "true", message |-> "activated"])
    /\ UNCHANGED <<outbox, cleanup, notice, call, cache, conversations, messages, req, history, now, lookup,
                   vault, exec>>

NextActivate ==
    \E c \in BodyChatIds : \E g \in BodyGeminiKeys : \E e \in BodyE2BKeys :
        RouteActivate(c, g, e)

SpecActivate == Init /\ [][NextActivate]_vars

Commands == {"start", "setkeys", "revoke", "status", "reset"}

\* bot.start / bot.command(...): an update with a command of chat c arrives;
\* the handler begins with auth.authenticate(ctx).
ReceiveCommand(r, c, cmd) ==
    /\ Ready(r)
    /\ req[r].pc = "idle"
    /\ \A q \in ReqIds : q < r => req[q].pc # "idle"
    /\ LET overlap == {q \in ReqIds : req[q].pc \in GatePcs /\ req[q].chat = c}
       IN req' = [q \in ReqIds |->
                    IF q = r
                    THEN [req[r] EXCEPT !.pc = "find", !.chat = c, !.command = cmd,
                              !.pre = StoredUser(users, c),
                              !.alone = (overlap = {})]
                    ELSE IF q \in overlap THEN [req[q] EXCEPT !.alone = FALSE]
                    ELSE req[q]]
    /\ UNCHANGED <<outbox, cleanup, notice, http, call, now, lookup, vault, exec, users, usageLogs, cache, conversations,
                   messages, history>>

\* bot.on('text') for the message that follows the prompt of /revoke in the
\* chat.
ReceiveAnswer(r, c) ==
    /\ history[c].prompted
    /\ Ready(r)
    /\ req[r].pc = "idle"
    /\ \A q \in ReqIds : q < r => req[q].pc # "idle"
    /\ LET overlap == {q \in ReqIds : req[q].pc \in GatePcs /\ req[q].chat = c}
       IN req' = [q \in ReqIds |->
                    IF q = r
                    THEN [req[r] EXCEPT !.pc = "find", !.chat = c, !.confirming = TRUE,
                              !.pre = StoredUser(users, c),
                              !.alone = (overlap = {})]
                    ELSE IF q \in overlap THEN [req[q] EXCEPT !.alone = FALSE]
                    ELSE req[q]]
    /\ history' = [history EXCEPT ![c].prompted = FALSE]
    /\ UNCHANGED <<outbox, cleanup, notice, http, call, now, lookup, vault, exec, users, usageLogs, cache, conversations,
                   messages>>

\* The rest of a command handler once authenticate returned a user: the
\* reply of the command.  /revoke sets awaitingRevokeConfirmation on the
\* session object of its own ctx before it replies; /reset answers FREE
\* users with a refusal and otherwise calls databaseService.resetMonthlyQuota,
\* which the store does not define, so its catch block replies.
CommandReply(r) ==
    /\ Ready(r)
    /\ req[r].pc = "command"
    /\ LET cmd == req[r].command
           reply == IF cmd # "reset" THEN cmd
                    ELSE IF users[req[r].uid].tier = "FREE" THEN "reset_refused"
                    ELSE "reset_error"
       IN /\ req' = [req EXCEPT ![r].pc = "done",
                                ![r].session = (cmd = "revoke"),
                                ![r].replies = Append(@, reply)]
          /\ history' = [history EXCEPT ![req[r].chat].prompted = (cmd = "revoke")]
    /\ UNCHANGED <<outbox, cleanup, notice, http, call, now, lookup, vault, exec, users, usageLogs, cache, conversations,
                   messages>>

\* The word YES as ctx.message.text.
YesText == Text(3, FALSE, FALSE)

\* telegram.js 278-301 for an answer to the prompt of /revoke: the handler
\* does not read ctx.session; the text, which may be YES, goes the way of
\* every text.
HandlerAnswer(r) ==
    /\ Ready(r)
    /\ req[r].pc = "h_conv"
    /\ req[r].result # 0
    /\ req[r].confirming
    /\ conversations' = EnsureConversation(conversations, req[r].uid, Thread(req[r].chat))
    /\ usageLogs' = logUsage(usageLogs, r, UserIdString(req[r].uid))
    /\ req' = [req EXCEPT ![r].pc = "pm_start", ![r].text = YesText, ![r].pmCalls = @ + 1]
    /\ UNCHANGED <<outbox, cleanup, notice, http, call, now, lookup, vault, exec, users, cache, messages, history>>

NextBot ==
    \/ Next
    \/ \E r \in ReqIds : \E c \in ChatIds : \E cmd \in Commands : ReceiveCommand(r, c, cmd)
    \/ \E r \in ReqIds : \E c \in ChatIds : ReceiveAnswer(r, c)
    \/ \E r \in ReqIds : CommandReply(r)
    \/ \E r \in ReqIds : HandlerAnswer(r)

SpecBot == Init /\ [][NextBot]_vars

\* C32: once /revoke has sent its prompt, a following YES of the same user
\* removes the user's stored keys and sets the tier to FREE.  (The other
\* half of the claim, that NO or any other message leaves keys and tier
\* unchanged, is not what fails.)
C32_YesRevokes ==
    \A r \in ReqIds :
        (req[r].pc = "done" /\ req[r].confirming /\ req[r].result # 0
            /\ req[r].text = YesText) =>
            /\ users[req[r].uid].gemini_api_key_encrypted = NullBlob
            /\ users[req[r].uid].e2b_api_key_encrypted = NullBlob
            /\ users[req[r].uid].tier = "FREE"

\* C37: message_count counts only the inbound text messages handed to
\* processMessage: an update that carries one of the bot commands /start,
\* /status, /setkeys, /revoke, /reset does not raise the counter.
C37_CommandsAreFree ==
    \A r \in ReqIds : req[r].command # "none" => req[r].incs = 0

(* ------------------------------------------------------------------ *)
(* The quota notice of the gate beside the reset job                   *)
(* ------------------------------------------------------------------ *)
\* The day of the month and the length of the month of new Date().
Calendar ==
    {[day |-> 1, length |-> 30], [day |-> 2, length |-> 28],
     [day |-> 15, length |-> 31], [day |-> 31, length |-> 31]}

\* getNextResetDate: new Date(now.getFullYear(), now.getMonth() + 1, 1), the
\* first day of the month after the current one.
getNextResetDate(t, today) == DayOf(t) + (today.length - today.day) + 1

\* Users that reached their quota: their period ended two days before the
\* process started, or they were created today.
ExhaustedUsers ==
    {[NewUserRecord(Num(1), tier) EXCEPT !.message_count = TierQuota(tier),
                                         !.quota_reset_date = d] :
        tier \in {"FREE", "BASIC"}, d \in {-2, 30}}

InitNotice ==
    /\ now = 0
    /\ users \in {<<u>> : u \in ExhaustedUsers}
    /\ usageLogs = << >>
    /\ cache = [i \in {} |-> NoEntry]
    /\ conversations = << >>
    /\ messages = << >>
    /\ req = [r \in ReqIds |-> IdleRequest]
    /\ history = [c \in ChatIds |-> [start |-> 0, proceeds |-> 0, prompted |-> FALSE]]
    /\ lookup = NoLookup
    /\ vault = NoVault
    /\ exec = NoExec
    /\ call = NoCall
    /\ outbox = NoOutbox
    /\ cleanup = NoCleanup
    /\ http = NoHttp
    /\ notice = NoNotice

\* authenticate blocks user i: checkUserQuota reports no quota left and
\* handleQuotaExceeded sends the notice with getNextResetDate().
QuotaNotice(i, today) ==
    /\ i \in 1..Len(users)
    /\ ~IsDeactivated(users[i])
    /\ ~checkUserQuota(users, i).hasQuota
    /\ notice' = [sent |-> TRUE, date |-> getNextResetDate(now, today),
                  user |-> [quota_reset_date |-> users[i].quota_reset_date,
                            message_count |-> users[i].message_count]]
    /\ UNCHANGED <<outbox, cleanup, http, users, now, call, usageLogs, cache, conversations, messages, req,
                   history, lookup, vault, exec>>

NextNotice ==
    \/ NextQuota
    \/ \E i \in 1..Len(users) : \E today \in Calendar : QuotaNotice(i, today)

SpecNotice == InitNotice /\ [][NextNotice]_vars

\* C33: the date announced in the quota notice is the date on which the
\* user's message_count is next reset to 0: the reset job, run on the
\* announced day (the first day of its month), resets the user the notice
\* was sent to.
C33_AnnouncedDateIsResetDate ==
    notice.sent =>
        resetMonthlyQuotas(<<notice.user>>, notice.date, now)[1].message_count = 0

\* C34: no part of a credential's plaintext is written to the log over a
\* run of processMessage: the log lines of a handler hold no character of
\* the keys it works with.
C34_NoCredentialInLogs ==
    \A r \in ReqIds : \A i \in 1..Len(req[r].logged) : req[r].logged[i].chars = 0

\* C35: under every interleaving of concurrent authenticate calls, no user's
\* message_count ever exceeds the user's message_quota, also when several
\* messages of the user arrive while one message is left.
C35_CountWithinQuota ==
    \A i \in 1..Len(users) : users[i].message_count <= users[i].message_quota

(* ------------------------------------------------------------------ *)
(* The server's cleanup jobs beside the gate                           *)
(* ------------------------------------------------------------------ *)
\* What start() of a cleanup module leaves behind.  CleanupJobs.initialize
\* registers its six jobs with cron.schedule(..., { scheduled: false }) and
\* starts none of them; CleanupService.start of cleanup-demo, the module the
\* server requires, only sets isRunning.
CleanupModules ==
    {[isRunning |-> TRUE,
      jobs |-> {"old-messages", "reset-quotas", "clear-cache", "old-logs",
                "health-check", "inactive-users"},
      timers |-> {}],
     [isRunning |-> TRUE, jobs |-> {}, timers |-> {}]}

\* startServer: await cleanupJobs.start().
CleanupStart(module) ==
    /\ ~cleanup.isRunning
    /\ cleanup' = module
    /\ UNCHANGED <<outbox, notice, http, users, now, call, usageLogs, cache, conversations,
                   messages, req, history, lookup, vault, exec>>

\* The steps of the running server that touch the users: days pass, chats
\* without user are given one, messages pass the gate or are answered with
\* the quota notice.  No timer of a cleanup job is ever started, so no step
\* runs resetMonthlyQuotas.
NextCleanup ==
    \/ \E module \in CleanupModules : CleanupStart(module)
    \/ QuotaDayPasses
    \/ \E c \in ChatIds : QuotaNewUser(c)
    \/ \E i \in 1..Len(users) : QuotaGatePass(i)
    \/ \E i \in 1..Len(users) : \E today \in Calendar : QuotaNotice(i, today)

SpecCleanup == InitNotice /\ [][NextCleanup]_vars

\* The server starts its cleanup module, and time passes.
SpecCleanupLive ==
    /\ SpecCleanup
    /\ WF_vars(\E module \in CleanupModules : CleanupStart(module))
    /\ WF_vars(QuotaDayPasses)

\* C36: a user who is blocked by the quota is eventually admitted again:
\* once the server has started its cleanup jobs, the monthly reset eventually
\* runs and the user has quota left.
C36_BlockedEventuallyAdmitted ==
    (cleanup.isRunning /\ ~checkUserQuota(users, 1).hasQuota)
        ~> checkUserQuota(users, 1).hasQuota

\* The role of a stored message as a history entry names it.
HistoryRole(role) ==
    IF role = "USER" THEN "user" ELSE IF role = "ASSISTANT" THEN "assistant" ELSE "system"

\* C38: the history given to the completion provider holds the USER and
\* ASSISTANT messages persisted before for the same conversation, in the
\* order of their creation, before the message of the current turn.
C38_HistoryHoldsStoredMessages ==
    \A r \in ReqIds :
        Len(req[r].history) > 0 =>
            LET earlier == SelectSeq(SubSeq(req[r].history, 1, Len(req[r].history) - 1),
                                     LAMBDA m : m.role # "system")
            IN /\ Len(req[r].stored) <= Len(earlier)
               /\ \A i \in 1..Len(req[r].stored) :
                     earlier[i] = [role |-> HistoryRole(req[r].stored[i].role),
                                   content |-> req[r].stored[i].content]

(* ------------------------------------------------------------------ *)
(* Sending the reply of processMessage (telegram.js 307-325)           *)
(* ------------------------------------------------------------------ *)
MaxRuns == 3

\* A text is kept as its runs: n characters that are line terminators, or n
\* characters that are not.
Run(nl, n) == [nl |-> nl, n |-> n]

\* text.length
RECURSIVE Length(_)
Length(text) == IF text = << >> THEN 0 ELSE Head(text).n + Length(Tail(text))

\* The runs of a text with adjacent runs of one kind joined.
RECURSIVE Joined(_)
Joined(text) ==
    IF Len(text) < 2 THEN text
    ELSE IF text[1].nl = text[2].nl
    THEN Joined(<<Run(text[1].nl, text[1].n + text[2].n)>> \o SubSeq(text, 3, Len(text)))
    ELSE <<text[1]>> \o Joined(Tail(text))

\* The concatenation of texts.
RECURSIVE Concat(_)
Concat(texts) == IF texts = << >> THEN << >> ELSE Head(texts) \o Concat(Tail(texts))

\* The replies processMessage may return: the empty string, and up to
\* MaxRuns alternating runs of 1, 4000 or 4001 characters.
RECURSIVE Alternating(_, _)
Alternating(k, nl) ==
    IF k = 0 THEN {<< >>}
    ELSE {<<Run(nl, n)>> \o rest : n \in {1, 4000, 4001}, rest \in Alternating(k - 1, ~nl)}

Responses ==
    UNION {Alternating(k, nl) : k \in 0..MaxRuns, nl \in BOOLEAN}

\* The matches of .{1,4000} in n characters without line terminator.
RECURSIVE Pieces(_)
Pieces(n) ==
    IF n = 0 THEN << >>
    ELSE IF n <= 4000 THEN <<<<Run(FALSE, n)>>>>
    ELSE <<<<Run(FALSE, 4000)>>>> \o Pieces(n - 4000)

\* response.match(/.{1,4000}/g): the matches in order, each up to 4000
\* characters of one line, since . matches no line terminator; the
\* terminators are in no match.  Without any match the result is null.
RECURSIVE Matches(_)
Matches(text) ==
    IF text = << >> THEN << >>
    ELSE (IF Head(text).nl THEN << >> ELSE Pieces(Head(text).n)) \o Matches(Tail(text))

\* The reply of the handler's catch block.
HandlerErrorText == <<[error |-> "Sorry, I encountered an error processing your message."]>>

\* The reply for a falsy response.
FallbackText == <<[error |-> "I received your message but couldn't process it."]>>

InitOutbox ==
    /\ Init
    /\ users = << >>

\* processMessage returned: a falsy response is answered with the fallback;
\* a response of up to 4000 characters is sent as it is; a longer one is
\* split, and chunks.length throws when match returned null, which the catch
\* block answers.
ReplyBegin(response) ==
    /\ outbox.pc = "idle"
    /\ outbox' =
         IF Length(response) = 0
         THEN [pc |-> "sent", response |-> response, chunks |-> << >>, sent |-> <<FallbackText>>]
         ELSE IF Length(response) > 4000
         THEN IF Matches(response) = << >>
              THEN [pc |-> "sent", response |-> response, chunks |-> << >>,
                    sent |-> <<HandlerErrorText>>]
              ELSE [pc |-> "chunks", response |-> response, chunks |-> Matches(response),
                    sent |-> << >>]
         ELSE [pc |-> "sent", response |-> response, chunks |-> << >>, sent |-> <<response>>]
    /\ UNCHANGED <<cleanup, notice, http, users, now, call, usageLogs, cache, conversations,
                   messages, req, history, lookup, vault, exec>>

\* for (const chunk of chunks) { await ctx.reply(chunk); await the delay }
ReplyChunk ==
    /\ outbox.pc = "chunks"
    /\ outbox' = [outbox EXCEPT !.sent = Append(@, Head(outbox.chunks)),
                                !.chunks = Tail(@),
                                !.pc = IF Len(outbox.chunks) = 1 THEN "sent" ELSE "chunks"]
    /\ UNCHANGED <<cleanup, notice, http, users, now, call, usageLogs, cache, conversations,
                   messages, req, history, lookup, vault, exec>>

\* The handler returns.
ReplyEnd ==
    /\ outbox.pc = "sent"
    /\ outbox' = [outbox EXCEPT !.pc = "returned"]
    /\ UNCHANGED <<cleanup, notice, http, users, now, call, usageLogs, cache, conversations,
                   messages, req, history, lookup, vault, exec>>

NextOutbox ==
    \/ \E response \in Responses : ReplyBegin(response)
    \/ ReplyChunk
    \/ ReplyEnd

SpecOutbox == InitOutbox /\ [][NextOutbox]_vars

\* C39: a reply of more than 4000 characters, with or without line
\* terminators, is sent as messages of at most 4000 characters whose
\* concatenation in the order sent is the reply, and no error message is
\* sent in its place.
C39_ChunksRebuildReply ==
    (outbox.pc = "returned" /\ Length(outbox.response) > 4000) =>
        /\ \A i \in 1..Len(outbox.sent) :
              /\ outbox.sent[i] # HandlerErrorText
              /\ Length(outbox.sent[i]) <= 4000
        /\ outbox.sent # <<HandlerErrorText>>
        /\ Joined(Concat(outbox.sent)) = outbox.response

(* ------------------------------------------------------------------ *)
(* The gate over the pg store (database-direct.js)                     *)
(* ------------------------------------------------------------------ *)
\* DatabaseService of database-direct.js has findUserByTelegramId,
\* createUser, checkUserQuota and incrementMessageCount with the meaning of
\* the in-memory store, and no updateUser: databaseService.updateUser(...) of
\* step 4 throws a TypeError, which the catch block of authenticate answers.
NextDirect ==
    \E r \in ReqIds :
           \/ \E c \in ChatIds : Receive(r, c)
           \/ AuthFind(r)
           \/ AuthCreate(r)
           \/ AuthQuota(r)
           \/ AuthTouchThrows(r)
           \/ Forget(r)

SpecDirect == Init /\ [][NextDirect]_vars

\* What authenticate does over the in-memory store for a chat whose stored
\* user is pre, when no other call for the chat overlaps: the outcome and the
\* stored message_count afterwards.
GateOverDemo(pre) ==
    IF ~pre.exists THEN [outcome |-> "NEW_USER", message_count |-> 0]
    ELSE IF IsDeactivated(pre)
    THEN [outcome |-> "INACTIVE", message_count |-> pre.message_count]
    ELSE IF pre.message_quota - pre.message_count > 0
    THEN [outcome |-> "PROCEED", message_count |-> pre.message_count + 1]
    ELSE [outcome |-> "QUOTA_EXCEEDED", message_count |-> pre.message_count]

\* C40: the gate over database-direct behaves as over database-demo: for the
\* same stored user, a call that no other call overlaps has the same outcome
\* and leaves the same message_count.
C40_DirectStoreAsDemo ==
    \A r \in ReqIds :
        (req[r].outcome # "none" /\ req[r].alone) =>
            /\ req[r].outcome = GateOverDemo(req[r].pre).outcome
            /\ req[r].after = GateOverDemo(req[r].pre).message_count
====
